---- MODULE Spec2Model ----
(***************************************************************************)
(* Nexium ORM (src/index.js): the query builder and its compiler, clone,   *)
(* the entity lifecycle (create / save / delete / restore) with its        *)
(* cascade resolver, and the eager-load engine, as state machines.         *)
(*                                                                         *)
(* SQL text is a sequence of tokens.  A token is [tok, lit]: tok is the    *)
(* text fragment; for a placeholder tok = "?" and lit is the literal that  *)
(* the predicate which emitted the placeholder carries (its value, one of  *)
(* its values, one of its bounds).  lit is bookkeeping of the emitter, the *)
(* text is the tok projection.  The backtick of escapeId is written "|".   *)
(***************************************************************************)
EXTENDS Integers, Sequences, FiniteSets, TLC

\* ------------------------------------------------------------------------
\* Bounds
\* ------------------------------------------------------------------------
MaxOps == 3
MaxCloneOps == 4
MaxBuilders == 4
MaxWheres == 2
MaxHaving == 1
MaxSubs == 1
MaxCb == 1
MaxCalls == 3
MaxWith == 2
MaxTx == 2
MaxFnQueries == 2
MaxRetry == 3
MaxOpCalls == 2
MaxReadOps == 2
MaxTotal == 4
MaxBatch == 3
MaxConcRetry == 2

\* ------------------------------------------------------------------------
\* Literals.  "a" is a plain string; "D" is a Date object, which
\* JSON.parse(JSON.stringify(.)) turns into its ISO string "Ds".
\* ------------------------------------------------------------------------
Lits == {"a", "D"}

JsonLit(l) == IF l = "D" THEN "Ds" ELSE l

JsonSeq(s) == [i \in 1..Len(s) |-> JsonLit(s[i])]

NoLimit == -1

\* ------------------------------------------------------------------------
\* The schema the builders and entities are used with: three entity types.
\* Comment has soft deletes enabled; User declares relations() for whereHas.
\* ------------------------------------------------------------------------
NoModel == "none"

SoftDeletes(m) == m = "Comment"

TableOf(m) == IF m = "User" THEN "users" ELSE IF m = "Post" THEN "posts" ELSE "comments"

RelationNames == {"posts", "comments"}

RelatedModel(r) == IF r = "posts" THEN "Post" ELSE "Comment"

VARIABLES heap, lastTarget, clones, ops

qbVars == <<heap, lastTarget, clones, ops>>

\* ------------------------------------------------------------------------
\* Tokens
\* ------------------------------------------------------------------------
T(s) == [tok |-> s, lit |-> ""]

P(l) == [tok |-> "?", lit |-> l]

EscapeId(s) == IF s = "*" THEN "*" ELSE "|" \o s \o "|"

\* ------------------------------------------------------------------------
\* Builders and predicate nodes
\* ------------------------------------------------------------------------
NewQB(table, model) ==
  [table |-> table, model |-> model, dialect |-> "mysql",
   select |-> <<"*">>, joins |-> <<>>, wheres |-> <<>>, having |-> <<>>,
   orders |-> <<>>, limit |-> NoLimit, offset |-> NoLimit,
   ctes |-> <<>>, unions |-> <<>>]

\* A predicate node.  value: the literal(s) the predicate carries;
\* bindings: the node's bindings field (absent and [] are both <<>>);
\* query: the id of the sub-builder, 0 when there is none.
Node(type, bool, col, op, value, bindings, query, raw, neg) ==
  [type |-> type, boolean |-> bool, column |-> col, operator |-> op,
   value |-> value, bindings |-> bindings, query |-> query, raw |-> raw,
   not |-> neg]

PushWhere(b, w) == [b EXCEPT !.wheres = Append(@, w)]

VALID_OPERATORS == {"=", "<", "<=", ">", ">=", "<>", "!=", "LIKE", "ILIKE"}

ToUpperCase(op) == IF op = "like" THEN "LIKE" ELSE IF op = "ilike" THEN "ILIKE" ELSE op

OperatorThrows(op) == ToUpperCase(op) \notin VALID_OPERATORS

NormalizeOperator(b, op) ==
  IF ToUpperCase(op) = "ILIKE" /\ b.dialect = "mysql" THEN "LIKE" ELSE ToUpperCase(op)

UseLower(b, op) == b.dialect = "mysql" /\ ToUpperCase(op) = "ILIKE"

LowerCol(b, op, col) == IF UseLower(b, op) THEN "LOWER(" \o col \o ")" ELSE col

WhereBasic(b, bool, col, op, v) ==
  PushWhere(b, Node("basic", bool, LowerCol(b, op, col), NormalizeOperator(b, op),
                    <<v>>, <<v>>, 0, "", FALSE))

WhereNot(b, col, v) ==
  PushWhere(b, Node("basic", "AND", col, "!=", <<v>>, <<v>>, 0, "", TRUE))

WhereColumn(b, first, op, second) ==
  PushWhere(b, Node("columns", "AND", first, op, <<>>, <<>>, 0, second, FALSE))

\* a whereIn whose empty-list predicate is the always-true text
WhereInAlwaysTrue(b, col, values) ==
  IF values = <<>>
  THEN PushWhere(b, Node("raw", "AND", "", "", <<>>, <<>>, 0, "1 = 1", FALSE))
  ELSE PushWhere(b, Node("in", "AND", col, "", values, values, 0, "", FALSE))

WhereIn(b, col, values) ==
  IF values = <<>>
  THEN PushWhere(b, Node("raw", "AND", "", "", <<>>, <<>>, 0, "0 = 1", FALSE))
  ELSE PushWhere(b, Node("in", "AND", col, "", values, values, 0, "", FALSE))

WhereNotIn(b, col, values) ==
  IF values = <<>>
  THEN PushWhere(b, Node("raw", "AND", "", "", <<>>, <<>>, 0, "1 = 1", FALSE))
  ELSE PushWhere(b, Node("notIn", "AND", col, "", values, values, 0, "", FALSE))

WhereNull(b, col, neg) ==
  PushWhere(b, Node("null", "AND", col, "", <<>>, <<>>, 0, "", neg))

WhereBetween(b, col, lo, hi, neg) ==
  PushWhere(b, Node("between", "AND", col, "", <<lo, hi>>, <<lo, hi>>, 0, "", neg))

WhereRaw(b, sql) ==
  PushWhere(b, Node("raw", "AND", "", "", <<>>, <<>>, 0, sql, FALSE))

PushHaving(b, col, op, v, bool) ==
  [b EXCEPT !.having = Append(@, [column |-> col, operator |-> op, value |-> v,
                                  boolean |-> bool, bindings |-> <<v>>])]

Limit(b, n) == [b EXCEPT !.limit = n]

Offset(b, n) == [b EXCEPT !.offset = n]

\* Model.query(): a builder on the type's table; with soft deletes enabled
\* and withTrashed false it pushes { raw: "deleted_at IS NULL" }, a node
\* that has no type field (type "undefined") and no boolean.
TypelessNode(sql) == Node("undefined", "undefined", "", "", <<>>, <<>>, 0, sql, FALSE)

ModelQuery(m, withTrashed) ==
  IF SoftDeletes(m) /\ ~withTrashed
  THEN PushWhere(NewQB(TableOf(m), m), TypelessNode(EscapeId("deleted_at") \o " IS NULL"))
  ELSE NewQB(TableOf(m), m)

\* ------------------------------------------------------------------------
\* Compiler.  _compileWheres throws on a node of unknown type; the throw
\* propagates through every sub-query the compile walks.
\* ------------------------------------------------------------------------
KnownTypes == {"raw", "basic", "columns", "nested", "in", "notIn", "null",
               "between", "exists", "notExists", "rawExists", "rawNotExists"}

RECURSIVE CompileWheresThrows(_, _)
RECURSIVE CompileSelectThrows(_, _)

CompileWheresThrows(h, b) ==
  \E i \in 1..Len(b.wheres) :
    LET w == b.wheres[i] IN
      \/ w.type \notin KnownTypes
      \/ w.type = "nested" /\ CompileWheresThrows(h, h[w.query])
      \/ w.type \in {"exists", "notExists"} /\ CompileSelectThrows(h, h[w.query])

CompileSelectThrows(h, b) ==
  \/ \E i \in 1..Len(b.ctes) : CompileSelectThrows(h, h[b.ctes[i].query])
  \/ CompileWheresThrows(h, b)
  \/ \E i \in 1..Len(b.unions) : CompileSelectThrows(h, h[b.unions[i].query])

RECURSIVE CompileWheresFrom(_, _, _)
RECURSIVE CompileSelect(_, _)
RECURSIVE CompileCTEs(_, _, _)
RECURSIVE CompileUnions(_, _, _, _)

Placeholders(values) == [i \in 1..Len(values) |-> P(values[i])]

CompileWhere(h, w, i) ==
  LET pre == IF i = 1 THEN <<T("WHERE")>> ELSE <<T(w.boolean)>> IN
  CASE w.type = "raw" -> pre \o <<T(w.raw)>>
    [] w.type = "basic" -> pre \o <<T(EscapeId(w.column)), T(w.operator), P(w.value[1])>>
    [] w.type = "columns" -> pre \o <<T(EscapeId(w.column)), T(w.operator), T(EscapeId(w.raw))>>
    [] w.type = "nested" ->
         LET inner == CompileWheresFrom(h, h[w.query].wheres, 1) IN
           pre \o <<T("(")>> \o (IF inner = <<>> THEN <<>> ELSE Tail(inner)) \o <<T(")")>>
    [] w.type = "in" -> pre \o <<T(EscapeId(w.column)), T("IN"), T("(")>>
                            \o Placeholders(w.value) \o <<T(")")>>
    [] w.type = "notIn" -> pre \o <<T(EscapeId(w.column)), T("NOT IN"), T("(")>>
                               \o Placeholders(w.value) \o <<T(")")>>
    [] w.type = "null" -> pre \o <<T(EscapeId(w.column)), T(IF w.not THEN "IS NOT NULL" ELSE "IS NULL")>>
    [] w.type = "between" -> pre \o <<T(EscapeId(w.column)), T(IF w.not THEN "NOT BETWEEN" ELSE "BETWEEN"),
                                     P(w.value[1]), T("AND"), P(w.value[2])>>
    [] w.type = "exists" -> pre \o <<T("EXISTS"), T("(")>> \o CompileSelect(h, h[w.query]) \o <<T(")")>>
    [] w.type = "notExists" -> pre \o <<T("NOT EXISTS"), T("(")>> \o CompileSelect(h, h[w.query]) \o <<T(")")>>
    [] w.type = "rawExists" -> pre \o <<T("EXISTS"), T("("), T(w.raw), T(")")>>
    [] w.type = "rawNotExists" -> pre \o <<T("NOT EXISTS"), T("("), T(w.raw), T(")")>>
    [] OTHER -> <<>>

CompileWheresFrom(h, ws, i) ==
  IF i > Len(ws) THEN <<>>
  ELSE CompileWhere(h, ws[i], i) \o CompileWheresFrom(h, ws, i + 1)

CompileWheres(h, b) == CompileWheresFrom(h, b.wheres, 1)

CompileCTEs(h, ctes, i) ==
  IF i > Len(ctes) THEN <<>>
  ELSE (IF i = 1 THEN <<T(IF \E k \in 1..Len(ctes) : ctes[k].recursive
                          THEN "WITH RECURSIVE" ELSE "WITH")>>
        ELSE <<T(",")>>)
       \o <<T(EscapeId(ctes[i].name)), T("AS"), T("(")>>
       \o CompileSelect(h, h[ctes[i].query]) \o <<T(")")>>
       \o CompileCTEs(h, ctes, i + 1)

CompileJoins(b) ==
  [i \in 1..Len(b.joins) |->
     T(b.joins[i].type \o " JOIN " \o EscapeId(b.joins[i].table) \o " ON "
       \o EscapeId(b.joins[i].first) \o " " \o b.joins[i].operator \o " "
       \o EscapeId(b.joins[i].second))]

CompileHaving(b) ==
  IF b.having = <<>> THEN <<>>
  ELSE LET One(i) == <<T(IF i = 1 THEN "HAVING" ELSE b.having[i].boolean),
                       T(EscapeId(b.having[i].column)), T(b.having[i].operator),
                       P(b.having[i].value)>>
           F[i \in 0..Len(b.having)] == IF i = 0 THEN <<>> ELSE F[i - 1] \o One(i)
       IN F[Len(b.having)]

CompileOrders(b) ==
  IF b.orders = <<>> THEN <<>>
  ELSE <<T("ORDER BY")>> \o
       [i \in 1..Len(b.orders) |-> T(EscapeId(b.orders[i][1]) \o " " \o b.orders[i][2])]

CompileUnions(h, sql, unions, i) ==
  IF i > Len(unions) THEN sql
  ELSE CompileUnions(h,
         <<T("(")>> \o sql \o <<T(")"), T(unions[i].type), T("(")>>
           \o CompileSelect(h, h[unions[i].query]) \o <<T(")")>>,
         unions, i + 1)

CompileSelect(h, b) ==
  CompileUnions(h,
    CompileCTEs(h, b.ctes, 1)
      \o <<T("SELECT")>> \o [i \in 1..Len(b.select) |-> T(b.select[i])]
      \o <<T("FROM"), T(EscapeId(b.table))>>
      \o CompileJoins(b)
      \o CompileWheres(h, b)
      \o CompileHaving(b)
      \o CompileOrders(b)
      \o (IF b.limit # NoLimit THEN <<T("LIMIT"), T(ToString(b.limit))>> ELSE <<>>)
      \o (IF b.offset # NoLimit THEN <<T("OFFSET"), T(ToString(b.offset))>> ELSE <<>>),
    b.unions, 1)

RECURSIVE GatherBindings(_, _)
RECURSIVE GatherSubs(_, _, _)

GatherSubs(h, subs, i) ==
  IF i > Len(subs) THEN <<>>
  ELSE GatherBindings(h, h[subs[i].query]) \o GatherSubs(h, subs, i + 1)

GatherOwn(items) ==
  LET F[i \in 0..Len(items)] == IF i = 0 THEN <<>> ELSE F[i - 1] \o items[i].bindings
  IN F[Len(items)]

GatherBindings(h, b) ==
  GatherSubs(h, b.ctes, 1) \o GatherOwn(b.wheres) \o GatherOwn(b.having)
    \o GatherSubs(h, b.unions, 1)

\* toSQL(): { sql, bindings }, or the exception of the compile.
SqlText(toks) == [i \in 1..Len(toks) |-> toks[i].tok]

ToSQL(h, b) ==
  IF CompileSelectThrows(h, b)
  THEN [threw |-> TRUE, sql |-> <<>>, bindings |-> <<>>]
  ELSE [threw |-> FALSE, sql |-> SqlText(CompileSelect(h, b)), bindings |-> GatherBindings(h, b)]

\* ------------------------------------------------------------------------
\* Clone
\* ------------------------------------------------------------------------
JsonNode(w) == [w EXCEPT !.value = JsonSeq(@), !.bindings = JsonSeq(@)]

JsonHaving(hs) ==
  [i \in 1..Len(hs) |-> [hs[i] EXCEPT !.value = JsonLit(@), !.bindings = JsonSeq(@)]]

\* (RehydrateWheresShared: the copy that keeps every node as it is, its
\* query reference included.)
\* _rehydrateWheres(ws) called on the builder self: returns the grown heap
\* and the copied node list.  new QueryBuilder(..) is an Append to the heap.
RehydrateWheresShared(h, self, ws) == [h |-> h, ws |-> ws]

RECURSIVE RehydrateWheres(_, _, _)

RehydrateWheres(h, self, ws) ==
  IF ws = <<>> THEN [h |-> h, ws |-> <<>>]
  ELSE
    LET w == Head(ws) IN
    IF w.type = "nested" /\ w.query # 0 THEN
      LET sub == h[w.query]
          inner == RehydrateWheres(h, self, sub.wheres)
          qb == [NewQB(self.table, self.model) EXCEPT
                   !.wheres = inner.ws, !.joins = sub.joins, !.having = sub.having,
                   !.orders = sub.orders, !.limit = sub.limit, !.offset = sub.offset,
                   !.select = sub.select]
          h2 == Append(inner.h, qb)
          node == [w EXCEPT !.query = Len(h2), !.bindings = GatherBindings(h2, qb)]
          rest == RehydrateWheres(h2, self, Tail(ws))
      IN [h |-> rest.h, ws |-> <<node>> \o rest.ws]
    ELSE IF w.type \in {"exists", "notExists"} /\ w.query # 0 THEN
      LET sub == h[w.query]
          inner == RehydrateWheres(h, self, sub.wheres)
          qb == [NewQB(sub.table, sub.model) EXCEPT
                   !.wheres = inner.ws, !.select = sub.select]
          h2 == Append(inner.h, qb)
          node == [w EXCEPT !.query = Len(h2), !.bindings = GatherBindings(h2, qb)]
          rest == RehydrateWheres(h2, self, Tail(ws))
      IN [h |-> rest.h, ws |-> <<node>> \o rest.ws]
    ELSE
      LET rest == RehydrateWheres(h, self, Tail(ws))
      IN [h |-> rest.h, ws |-> <<JsonNode(w)>> \o rest.ws]

\* _rehydrateCTEs / _rehydrateUnions: the same walk over { ..., query }.
RECURSIVE RehydrateSubs(_, _, _)

RehydrateSubs(h, self, subs) ==
  IF subs = <<>> THEN [h |-> h, subs |-> <<>>]
  ELSE
    LET s == Head(subs)
        sub == h[s.query]
        inner == RehydrateWheres(h, self, sub.wheres)
        qb == [NewQB(sub.table, sub.model) EXCEPT
                 !.wheres = inner.ws, !.select = sub.select]
        h2 == Append(inner.h, qb)
        rest == RehydrateSubs(h2, self, Tail(subs))
    IN [h |-> rest.h, subs |-> <<[s EXCEPT !.query = Len(h2)]>> \o rest.subs]

RehydrateCTEs(h, self, ctes) == RehydrateSubs(h, self, ctes)

RehydrateUnions(h, self, unions) == RehydrateSubs(h, self, unions)

\* _clone() of heap[id]: the heap with the clone and its sub-builders
\* appended; the clone is at index Len(h) + 1.
CloneHeap(h, id) ==
  LET src == h[id]
      c == [NewQB(src.table, src.model) EXCEPT
              !.select = src.select, !.joins = src.joins, !.orders = src.orders,
              !.limit = src.limit, !.offset = src.offset]
      cid == Len(h) + 1
      h1 == Append(h, c)
      rw == RehydrateWheres(h1, src, src.wheres)
      rc == RehydrateCTEs(rw.h, src, src.ctes)
      ru == RehydrateUnions(rc.h, src, src.unions)
  IN [ru.h EXCEPT ![cid] = [c EXCEPT !.wheres = rw.ws, !.ctes = rc.subs,
                                     !.unions = ru.subs,
                                     !.having = JsonHaving(src.having)]]

\* ------------------------------------------------------------------------
\* The builder operations that take no sub-builder, as values, so that a
\* callback (whereNested, whereExists, whereHas) is a script of them.
\* ------------------------------------------------------------------------
SimpleOps ==
  { [op |-> "where", vals |-> <<"a">>],
    [op |-> "orWhere", vals |-> <<"D">>],
    [op |-> "whereNot", vals |-> <<"a">>],
    [op |-> "whereIn", vals |-> <<>>],
    [op |-> "whereIn", vals |-> <<"a", "D">>],
    [op |-> "whereNotIn", vals |-> <<"D">>],
    [op |-> "whereBetween", vals |-> <<"D", "a">>],
    [op |-> "whereNull", vals |-> <<>>],
    [op |-> "whereColumn", vals |-> <<>>],
    [op |-> "having", vals |-> <<"D">>],
    [op |-> "limit", vals |-> <<>>],
    [op |-> "offset", vals |-> <<>>] }

IsPredicateOp(o) == o.op \notin {"having", "limit", "offset"}

OpFits(b, o) ==
  /\ IsPredicateOp(o) => Len(b.wheres) < MaxWheres
  /\ o.op = "having" => Len(b.having) < MaxHaving
  /\ o.op = "limit" => b.limit = NoLimit
  /\ o.op = "offset" => b.offset = NoLimit

ApplySimple(b, o) ==
  CASE o.op = "where" -> WhereBasic(b, "AND", "c", "=", o.vals[1])
    [] o.op = "orWhere" -> WhereBasic(b, "OR", "c", "=", o.vals[1])
    [] o.op = "whereNot" -> WhereNot(b, "c", o.vals[1])
    [] o.op = "whereIn" -> WhereIn(b, "c", o.vals)
    [] o.op = "whereNotIn" -> WhereNotIn(b, "c", o.vals)
    [] o.op = "whereBetween" -> WhereBetween(b, "c", o.vals[1], o.vals[2], FALSE)
    [] o.op = "whereNull" -> WhereNull(b, "c", FALSE)
    [] o.op = "whereColumn" -> WhereColumn(b, "c", "=", "d")
    [] o.op = "having" -> PushHaving(b, "c", "=", o.vals[1], "AND")
    [] o.op = "limit" -> Limit(b, 1)
    [] o.op = "offset" -> Offset(b, 1)

RECURSIVE ScriptsOfLen(_)

\* what the callbacks of the model call on the builder they are handed
CallbackOps ==
  { [op |-> "where", vals |-> <<"a">>],
    [op |-> "whereIn", vals |-> <<"a", "D">>],
    [op |-> "having", vals |-> <<"D">>],
    [op |-> "limit", vals |-> <<>>] }

\* what is called on a clone and on the builders under it
CloneOps == { o \in SimpleOps : o.op \in {"where", "limit", "offset"} }

ScriptsOfLen(n) ==
  IF n = 0 THEN {<<>>} ELSE { Append(s, o) : s \in ScriptsOfLen(n - 1), o \in CallbackOps }

Scripts == UNION { ScriptsOfLen(n) : n \in 0..MaxCb }

RECURSIVE ScriptFits(_, _)

ScriptFits(b, script) ==
  IF script = <<>> THEN TRUE
  ELSE OpFits(b, Head(script)) /\ ScriptFits(ApplySimple(b, Head(script)), Tail(script))

RECURSIVE ApplyScript(_, _)

ApplyScript(b, script) ==
  IF script = <<>> THEN b ELSE ApplyScript(ApplySimple(b, Head(script)), Tail(script))

\* ------------------------------------------------------------------------
\* Reachability between builders
\* ------------------------------------------------------------------------
Children(b) ==
  {b.wheres[i].query : i \in 1..Len(b.wheres)} \cup
  {b.ctes[i].query : i \in 1..Len(b.ctes)} \cup
  {b.unions[i].query : i \in 1..Len(b.unions)}

RECURSIVE Reach(_, _)

Reach(h, id) == {id} \cup UNION { Reach(h, c) : c \in Children(h[id]) \ {0} }

Ids == 1..Len(heap)

\* ------------------------------------------------------------------------
\* Builder actions.  lastTarget is the builder the step mutated (0: none);
\* clones records, for each _clone() call, the source, the clone and the
\* builders reachable from the clone when it was returned.
\* ------------------------------------------------------------------------
BuilderModels == {"User", "Comment"}

\* ops is the number of builder calls the run may still make (the calls a
\* callback makes included).
InitBuilders(budget) ==
  /\ heap = <<ModelQuery("User", FALSE)>>
  /\ lastTarget = 0
  /\ clones = {}
  /\ ops = budget

CanSpend(n) == n <= ops

Spend(n) == ops' = ops - n

\* new QueryBuilder(table) / Model.query() / Model.withTrashed()
NewQuery(m, withTrashed) ==
  /\ CanSpend(1)
  /\ Len(heap) < MaxBuilders
  /\ heap' = Append(heap, ModelQuery(m, withTrashed))
  /\ lastTarget' = 0
  /\ Spend(1)
  /\ UNCHANGED clones

\* where, orWhere, whereNot, whereIn, whereNotIn, whereBetween, whereNull,
\* whereColumn, having, limit, offset on any builder
Simple(id, o) ==
  /\ CanSpend(1)
  /\ OpFits(heap[id], o)
  /\ heap' = [heap EXCEPT ![id] = ApplySimple(@, o)]
  /\ lastTarget' = id
  /\ Spend(1)
  /\ UNCHANGED clones

\* A builder handed to another builder stops being "the clone's own".
Attach(child) == clones' = { p \in clones : child \notin p.reach }

SubNode(type, query, bindings) == Node(type, "AND", "", "", <<>>, bindings, query, "", FALSE)

\* whereNested(cb)
WhereNested(id, script) ==
  LET qb == ApplyScript(NewQB(heap[id].table, heap[id].model), script)
      h2 == Append(heap, qb)
  IN /\ CanSpend(1 + Len(script))
     /\ Len(heap) < MaxBuilders
     /\ Len(heap[id].wheres) < MaxWheres
     /\ ScriptFits(NewQB(heap[id].table, heap[id].model), script)
     /\ heap' = [h2 EXCEPT ![id] = PushWhere(@, SubNode("nested", Len(h2), GatherBindings(h2, qb)))]
     /\ lastTarget' = id
     /\ Spend(1 + Len(script))
     /\ UNCHANGED clones

\* whereExists(cb) / whereNotExists(cb)
WhereExistsCallback(id, script, neg) ==
  LET qb == ApplyScript(NewQB(heap[id].table, heap[id].model), script)
      h2 == Append(heap, qb)
  IN /\ CanSpend(1 + Len(script))
     /\ Len(heap) < MaxBuilders
     /\ Len(heap[id].wheres) < MaxWheres
     /\ ScriptFits(NewQB(heap[id].table, heap[id].model), script)
     /\ heap' = [h2 EXCEPT ![id] = PushWhere(@, SubNode(IF neg THEN "notExists" ELSE "exists",
                                                        Len(h2), GatherBindings(h2, qb)))]
     /\ lastTarget' = id
     /\ Spend(1 + Len(script))
     /\ UNCHANGED clones

\* whereExists(builder) / whereNotExists(builder)
WhereExistsBuilder(id, child, neg) ==
  /\ CanSpend(1)
  /\ id \notin Reach(heap, child)
  /\ Len(heap[id].wheres) < MaxWheres
  /\ heap' = [heap EXCEPT ![id] = PushWhere(@, SubNode(IF neg THEN "notExists" ELSE "exists",
                                                       child, GatherBindings(heap, heap[child])))]
  /\ lastTarget' = id
  /\ Spend(1)
  /\ Attach(child)

\* whereHas(relationName, callback)
WhereHas(id, rel, script) ==
  LET related == RelatedModel(rel)
      relatedQuery == ApplyScript(ModelQuery(related, FALSE), script)
      existsQuery == WhereRaw([ModelQuery(related, FALSE) EXCEPT !.wheres = relatedQuery.wheres],
                              EscapeId(TableOf(related)) \o "." \o EscapeId("user_id") \o " = "
                                \o EscapeId(heap[id].table) \o "." \o EscapeId("id"))
      h2 == Append(heap, existsQuery)
  IN /\ CanSpend(1 + Len(script))
     /\ heap[id].model = "User"
     /\ Len(heap) < MaxBuilders
     /\ Len(heap[id].wheres) < MaxWheres
     /\ ScriptFits(ModelQuery(related, FALSE), script)
     /\ heap' = [h2 EXCEPT ![id] = PushWhere(@, SubNode("exists", Len(h2), <<>>))]
     /\ lastTarget' = id
     /\ Spend(1 + Len(script))
     /\ UNCHANGED clones

\* withCTE(name, query)
WithCTE(id, child) ==
  /\ CanSpend(1)
  /\ id \notin Reach(heap, child)
  /\ Len(heap[id].ctes) < MaxSubs
  /\ heap' = [heap EXCEPT ![id].ctes = Append(@, [name |-> "x", query |-> child, recursive |-> FALSE])]
  /\ lastTarget' = id
  /\ Spend(1)
  /\ Attach(child)

\* union(q)
Union(id, child) ==
  /\ CanSpend(1)
  /\ id \notin Reach(heap, child)
  /\ Len(heap[id].unions) < MaxSubs
  /\ heap' = [heap EXCEPT ![id].unions = Append(@, [type |-> "UNION", query |-> child])]
  /\ lastTarget' = id
  /\ Spend(1)
  /\ Attach(child)

\* c = Q._clone()
Clone(id) ==
  LET h2 == CloneHeap(heap, id)
      cid == Len(heap) + 1
  IN /\ CanSpend(1)
     /\ Len(h2) <= MaxBuilders
     /\ heap' = h2
     /\ lastTarget' = 0
     /\ Spend(1)
     /\ clones' = clones \cup {[src |-> id, clone |-> cid, reach |-> Reach(h2, cid)]}

\* ------------------------------------------------------------------------
\* C1 (binding-order fidelity): for every builder whose toSQL() returns, the
\* bindings list is exactly the list of literals of the placeholders of the
\* SQL text, in emission order (so the counts agree as well).
\* ------------------------------------------------------------------------
EmittedLiterals(toks) ==
  LET ph == SelectSeq(toks, LAMBDA t : t.tok = "?")
  IN [i \in 1..Len(ph) |-> ph[i].lit]

BindingFidelityAt(h, id) ==
  ~CompileSelectThrows(h, h[id]) =>
      GatherBindings(h, h[id]) = EmittedLiterals(CompileSelect(h, h[id]))

C1_BindingOrderFidelity == \A id \in Ids : BindingFidelityAt(heap, id)

\* ------------------------------------------------------------------------
\* C2 (clone independence): a step that mutates the clone, or a builder that
\* was reachable from the clone when _clone() returned it, leaves toSQL() of
\* the clone's source as it was.
\* ------------------------------------------------------------------------
C2_CloneIndependence ==
  [][\A p \in clones :
       lastTarget' \in p.reach =>
         ToSQL(heap', heap'[p.src]) = ToSQL(heap, heap[p.src])]_qbVars

\* a builder under a clone (not the clone itself) has just been mutated, and
\* the source of the clone has sub-builders of its own
C2_Witness ==
  \E p \in clones :
    /\ lastTarget \in p.reach \ {p.clone}
    /\ Children(heap[p.src]) \ {0} # {}
    /\ ~ToSQL(heap, heap[p.src]).threw

\* ========================================================================
\* Entity lifecycle (Model) against a row source
\* ========================================================================
\* cfg: the entity type (its static fields and its declared relation);
\* ent: the entity in memory; db: the rows the row source stores;
\* call: the last Model call, with the events it caused in order;
\* clock: the number of calls made (new Date() is "t<clock>").
VARIABLES cfg, ent, db, call, clock

\* eager: a builder of the type User with its eager-load list, the rows the
\* queries find, and the last get() on it.
VARIABLE eager

entVars == <<cfg, ent, db, call, clock>>

Columns == {"id", "email", "created_at", "updated_at", "deleted_at"}

ColumnOrder == <<"id", "email", "created_at", "updated_at", "deleted_at">>

Absent == "<undefined>"

Null == "<null>"

RowIds == {"1", "2"}

PostIds == {"p1", "p2"}

NoAttrs == [k \in Columns |-> Absent]

Keys(m) == { k \in Columns : m[k] # Absent }

KeySeq(m) == SelectSeq(ColumnOrder, LAMBDA k : m[k] # Absent)

ValueSeq(m) == [i \in 1..Len(KeySeq(m)) |-> m[KeySeq(m)[i]]]

\* { ...a, ...b }
Spread(a, b) == [k \in Columns |-> IF b[k] # Absent THEN b[k] ELSE a[k]]

DateAt(t) == "t" \o ToString(t)

\* static columns (the columns sanitize keeps as null): not declared by Model
KeepCols == {}

IsBadValue(v) == v \in {Null, Absent, "", " "}

Sanitize(m) ==
  [k \in Columns |->
     IF m[k] = Absent THEN Absent
     ELSE IF ~IsBadValue(m[k]) THEN m[k]
     ELSE IF k \in KeepCols THEN Null ELSE Absent]

\* ------------------------------------------------------------------------
\* Statements and events.  A statement is what reaches DB.raw: its kind and
\* table, the columns it names, its bindings and the predicates of its WHERE.
\* ------------------------------------------------------------------------
Stmt(kind, table, cols, bindings, wheres) ==
  [kind |-> kind, table |-> table, cols |-> cols, bindings |-> bindings, wheres |-> wheres]

Ev(kind, name) == Stmt(kind, name, <<>>, <<>>, <<>>)

IsWrite(e) == e.kind \in {"INSERT", "UPDATE", "DELETE"}

\* QueryBuilder.insert(values)
InsertStmt(b, values) == Stmt("INSERT", b.table, KeySeq(values), ValueSeq(values), <<>>)

\* QueryBuilder.update(values): nothing for an empty map; the compile of the
\* WHERE may throw; bindings are the values, then the gathered bindings.
UpdateThrows(b, values) == Keys(values) # {} /\ CompileWheresThrows(<<>>, b)

UpdateStmts(b, values) ==
  IF Keys(values) = {} \/ CompileWheresThrows(<<>>, b) THEN <<>>
  ELSE <<Stmt("UPDATE", b.table, KeySeq(values),
              ValueSeq(values) \o GatherBindings(<<>>, b), b.wheres)>>

\* QueryBuilder.delete()
DeleteThrows(b) == CompileWheresThrows(<<>>, b)

DeleteStmts(b) ==
  IF CompileWheresThrows(<<>>, b) THEN <<>>
  ELSE <<Stmt("DELETE", b.table, <<>>, GatherBindings(<<>>, b), b.wheres)>>

\* QueryBuilder.get(): the SELECT
SelectStmts(b) ==
  IF CompileSelectThrows(<<>>, b) THEN <<>>
  ELSE <<Stmt("SELECT", b.table, <<>>, GatherBindings(<<>>, b), b.wheres)>>

\* ------------------------------------------------------------------------
\* The row source: the rows of the entity's table (all columns, NULL where
\* nothing was written; a missing row is NoAttrs), and for each row of the
\* related table the parent key it references (Absent: no such row).
\* A WHERE is evaluated as SQL does: AND binds tighter than OR.
\* ------------------------------------------------------------------------
NodeHolds(w, row) ==
  CASE w.type = "basic" /\ w.operator = "=" -> row[w.column] = w.value[1]
    [] w.type = "basic" /\ w.operator = "!=" -> row[w.column] \notin {Null, w.value[1]}
    [] w.type = "null" -> (row[w.column] = Null) = ~w.not
    [] w.type = "in" -> \E i \in 1..Len(w.value) : row[w.column] = w.value[i]
    [] w.type = "raw" -> w.raw = "1 = 1"
    [] OTHER -> FALSE

RECURSIVE WhereHolds(_, _, _, _)

WhereHolds(ws, row, i, acc) ==
  IF i > Len(ws) THEN acc
  ELSE IF i > 1 /\ ws[i].boolean = "OR"
       THEN (IF acc THEN TRUE ELSE WhereHolds(ws, row, i + 1, NodeHolds(ws[i], row)))
       ELSE WhereHolds(ws, row, i + 1, acc /\ NodeHolds(ws[i], row))

RowMatches(ws, row) == row["id"] # Absent /\ WhereHolds(ws, row, 1, TRUE)

FreeIds(d) == { i \in RowIds : d.rows[i]["id"] = Absent }

NextId(d) == IF "1" \in FreeIds(d) THEN "1" ELSE "2"

\* the stored row of an INSERT: the given columns, NULL elsewhere, and the
\* generated key when the statement carries none
InsertedRow(d, st) ==
  LET given == [k \in Columns |->
                  IF \E i \in 1..Len(st.cols) : st.cols[i] = k
                  THEN st.bindings[CHOOSE i \in 1..Len(st.cols) : st.cols[i] = k]
                  ELSE Null]
  IN [given EXCEPT !["id"] = IF @ = Null THEN NextId(d) ELSE @]

UpdatedRow(row, st) ==
  [k \in Columns |->
     IF \E i \in 1..Len(st.cols) : st.cols[i] = k
     THEN st.bindings[CHOOSE i \in 1..Len(st.cols) : st.cols[i] = k]
     ELSE row[k]]

Exec(d, st) ==
  CASE st.kind = "INSERT" ->
         LET r == InsertedRow(d, st) IN [d EXCEPT !.rows[r["id"]] = r]
    [] st.kind = "UPDATE" ->
         [d EXCEPT !.rows = [i \in RowIds |->
             IF RowMatches(st.wheres, d.rows[i]) THEN UpdatedRow(d.rows[i], st) ELSE d.rows[i]]]
    [] st.kind = "DELETE" ->
         [d EXCEPT !.rows = [i \in RowIds |->
             IF RowMatches(st.wheres, d.rows[i]) THEN NoAttrs ELSE d.rows[i]]]
    [] OTHER -> d

\* a statement on another table leaves the entity's table alone; a DELETE on
\* the related table removes the related rows its key binding names
ExecOn(d, st) ==
  IF st.table = d.table THEN Exec(d, st)
  ELSE IF st.table = "posts" /\ st.kind = "DELETE"
       THEN [d EXCEPT !.posts = [p \in PostIds |->
               IF \E i \in 1..Len(st.bindings) : st.bindings[i] = p THEN Absent ELSE @[p]]]
       ELSE d

RECURSIVE ExecAll(_, _)

ExecAll(d, sts) == IF sts = <<>> THEN d ELSE ExecAll(ExecOn(d, Head(sts)), Tail(sts))

Selected(d, b) == { i \in RowIds : RowMatches(b.wheres, d.rows[i]) }

\* ------------------------------------------------------------------------
\* Model calls.  Each yields the entity and the rows afterwards, the events
\* of the call in order, and how the call ended.
\* ------------------------------------------------------------------------
Outcome(e, d, trace, outcome) == [ent |-> e, db |-> d, trace |-> trace, outcome |-> outcome]

Entity(attrs, orig, exists) == [attrs |-> attrs, orig |-> orig, exists |-> exists]

NewEntity == Entity(NoAttrs, NoAttrs, FALSE)

\* the key the entity gets from an INSERT: the value QueryBuilder.insert
\* returns, which is the affected-row count of the statement
InsertResult == "1"

\* a saveNew that sends its INSERT before it validates
SaveNewInsertFirst(c, e, d, attrs, valid, t) ==
  LET st == InsertStmt(ModelQuery(c.model, FALSE), Sanitize(attrs))
  IN Outcome(e, ExecOn(d, st), <<st, Ev("VALIDATE", "")>>,
             IF valid THEN "ok" ELSE "ValidationError")

\* Model.saveNew(attrs)
SaveNew(c, e, d, attrs, valid, t) ==
  LET payload == Sanitize(attrs)
      stamped == IF c.timestamps
                 THEN [payload EXCEPT
                         !["created_at"] = IF @ = Absent THEN DateAt(t) ELSE @,
                         !["updated_at"] = IF @ = Absent THEN DateAt(t) ELSE @]
                 ELSE payload
      cleaned == IF SoftDeletes(c.model) /\ IsBadValue(stamped["deleted_at"])
                 THEN [stamped EXCEPT !["deleted_at"] = Absent]
                 ELSE stamped
      st == InsertStmt(ModelQuery(c.model, FALSE), cleaned)
      keyed == IF cleaned["id"] = Absent THEN [cleaned EXCEPT !["id"] = InsertResult] ELSE cleaned
  IN IF ~valid
     THEN Outcome(e, d, <<Ev("VALIDATE", "")>>, "ValidationError")
     ELSE Outcome(Entity(keyed, keyed, TRUE), ExecOn(d, st),
                  <<Ev("VALIDATE", ""), Ev("HOOK", "creating"), st>>, "ok")

\* the dirty set of save()
Dirty(c, e) ==
  [k \in Columns |->
     IF /\ e.attrs[k] # Absent
        /\ e.attrs[k] # e.orig[k]
        /\ ~IsBadValue(e.attrs[k])
        /\ ~(SoftDeletes(c.model) /\ k = "deleted_at")
     THEN e.attrs[k] ELSE Absent]

\* Model.save() on an entity that exists
SaveExisting(c, e, d, valid, t) ==
  LET payload0 == Sanitize(Dirty(c, e))
      payload == IF c.timestamps THEN [payload0 EXCEPT !["updated_at"] = DateAt(t)] ELSE payload0
      e1 == IF c.timestamps THEN [e EXCEPT !.attrs["updated_at"] = DateAt(t)] ELSE e
      qb == WhereBasic(ModelQuery(c.model, FALSE), "AND", "id", "=", e.attrs["id"])
      sts == UpdateStmts(qb, payload)
      hook == <<Ev("HOOK", "updating")>>
  IN IF Keys(payload0) = {} THEN Outcome(e, d, hook, "ok")
     ELSE IF ~valid THEN Outcome(e1, d, hook \o <<Ev("VALIDATE", "")>>, "ValidationError")
     ELSE IF UpdateThrows(qb, payload)
          THEN Outcome(e1, d, hook \o <<Ev("VALIDATE", "")>>, "Error")
          ELSE Outcome([e1 EXCEPT !.orig = Sanitize(e1.attrs)], ExecAll(d, sts),
                       hook \o <<Ev("VALIDATE", "")>> \o sts, "ok")

\* Model.save()
Save(c, e, d, valid, t) ==
  IF ~e.exists THEN SaveNew(c, e, d, e.attrs, valid, t) ELSE SaveExisting(c, e, d, valid, t)

\* what `await this[relName]()` yields in delete(): the relation method
\* returns the Relation object, which is not thenable, so the await yields
\* that object: truthy, not an Array, without a delete method
Related(c, e, d) == [kind |-> "Relation", items |-> <<>>]

\* the rows of the related table that reference the entity
RelatedRows(e, d) == { p \in PostIds : d.posts[p] # Absent /\ d.posts[p] = e.attrs["id"] }

NoRelation == [kind |-> "none", behavior |-> "ignore"]

\* a resolver that treats 'restrict' as 'ignore'
RestrictIgnored(c, related) == FALSE

\* case 'restrict' of the resolver
RestrictThrows(c, related) == c.rel # NoRelation /\ c.rel.behavior = "restrict"

ChildDelete(p) == Stmt("DELETE", "posts", <<>>, <<p>>, <<>>)

\* case 'cascade' of the resolver
CascadeStmts(c, related) ==
  IF c.rel = NoRelation \/ c.rel.behavior # "cascade" THEN <<>>
  ELSE IF related.kind = "Array"
       THEN [i \in 1..Len(related.items) |-> ChildDelete(related.items[i])]
       ELSE IF related.kind = "Model" THEN <<ChildDelete(related.items[1])>> ELSE <<>>

\* case 'detach' of the resolver: only for a pivot-backed relation; the key
\* list is read off the yielded value
DetachStmts(c, e, related) ==
  IF c.rel = NoRelation \/ c.rel.behavior # "detach" \/ c.rel.kind # "belongsToMany" THEN <<>>
  ELSE LET ids == IF related.kind = "Array" THEN related.items ELSE <<Absent>>
           qb == WhereIn(WhereBasic(NewQB("post_user", NoModel), "AND", "user_id", "=",
                                    e.attrs["id"]), "post_id", ids)
       IN DeleteStmts(qb)

\* Model.delete()
Delete(c, e, d, valid, t) ==
  LET hook == <<Ev("HOOK", "deleting")>>
      soft == Save(c, [e EXCEPT !.attrs["deleted_at"] = DateAt(t)], d, valid, t)
      related == Related(c, e, d)
      resolver == DetachStmts(c, e, related) \o CascadeStmts(c, related)
      qb == WhereBasic(ModelQuery(c.model, FALSE), "AND", "id", "=", e.attrs["id"])
      sts == resolver \o DeleteStmts(qb)
  IN IF ~e.exists THEN Outcome(e, d, <<>>, "false")
     ELSE IF SoftDeletes(c.model) THEN [soft EXCEPT !.trace = hook \o @]
     ELSE IF RestrictThrows(c, related) THEN Outcome(e, d, hook, "Error")
     ELSE IF DeleteThrows(qb) THEN Outcome(e, ExecAll(d, resolver), hook \o resolver, "Error")
     ELSE Outcome([e EXCEPT !.exists = FALSE], ExecAll(d, sts), hook \o sts, "ok")

\* Model.restore()
Restore(c, e, d, valid, t) ==
  IF ~SoftDeletes(c.model) THEN Outcome(e, d, <<>>, "ok")
  ELSE Save(c, [e EXCEPT !.attrs["deleted_at"] = Null], d, valid, t)

\* Model.fill(attrs) with one attribute
Fill(e, key, val) == IF IsBadValue(val) THEN e ELSE [e EXCEPT !.attrs[key] = val]

\* Model.setAttribute(key, value)
SetAttribute(e, key, val) == [e EXCEPT !.attrs[key] = val]

\* ------------------------------------------------------------------------
\* The lifecycle as a state machine
\* ------------------------------------------------------------------------
RelationConfigs ==
  {NoRelation} \cup
  [kind : {"hasMany"}, behavior : {"restrict", "cascade", "detach", "ignore"}] \cup
  [kind : {"belongsToMany"}, behavior : {"detach"}]

\* User: no soft deletes, one declared relation; Comment: soft deletes
Configs ==
  [model : {"User"}, timestamps : BOOLEAN, rel : RelationConfigs] \cup
  [model : {"Comment"}, timestamps : BOOLEAN, rel : {NoRelation}]

SeedRow == [k \in Columns |-> IF k = "id" THEN "1" ELSE IF k = "email" THEN "x" ELSE Null]

Call(op, outcome, trace, pre, withTrashed, extra, rows) ==
  [op |-> op, outcome |-> outcome, trace |-> trace, pre |-> pre,
   withTrashed |-> withTrashed, extra |-> extra, rows |-> rows]

NoCall == Call("none", "ok", <<>>, NewEntity, FALSE, "none", {})

InitEntity ==
  /\ cfg \in Configs
  /\ ent = NewEntity
  /\ \E posts \in [PostIds -> {Absent, "1"}] :
       db = [table |-> TableOf(cfg.model),
             rows |-> [i \in RowIds |-> IF i = "1" THEN SeedRow ELSE NoAttrs],
             posts |-> posts]
  /\ call = NoCall
  /\ clock = 0

Tick == clock < MaxCalls /\ clock' = clock + 1

Finish(op, r) ==
  /\ ent' = r.ent
  /\ db' = r.db
  /\ call' = Call(op, r.outcome, r.trace, ent, FALSE, "none", {})
  /\ UNCHANGED cfg

\* Model.create({email})
CreateEntity(email, valid) ==
  /\ Tick
  /\ FreeIds(db) # {}
  /\ Finish("create", SaveNew(cfg, ent, db, [NoAttrs EXCEPT !["email"] = email], valid, clock'))

\* new Model({email})
NewInstance(email) ==
  /\ Tick
  /\ Finish("new", Outcome(Entity([NoAttrs EXCEPT !["email"] = email],
                                  [NoAttrs EXCEPT !["email"] = email], FALSE), db, <<>>, "ok"))

\* entity.fill({email})
FillEntity(email) ==
  /\ Tick
  /\ Finish("fill", Outcome(Fill(ent, "email", email), db, <<>>, "ok"))

\* entity.setAttribute('email', email)
SetAttributeEntity(email) ==
  /\ Tick
  /\ Finish("setAttribute", Outcome(SetAttribute(ent, "email", email), db, <<>>, "ok"))

\* entity.save()
SaveEntity(valid) ==
  /\ Tick
  /\ ~ent.exists => FreeIds(db) # {}
  /\ Finish("save", Save(cfg, ent, db, valid, clock'))

\* entity.delete()
DeleteEntity(valid) ==
  /\ Tick
  /\ Finish("delete", Delete(cfg, ent, db, valid, clock'))

\* entity.restore()
RestoreEntity(valid) ==
  /\ Tick
  /\ ~ent.exists => FreeIds(db) # {}
  /\ Finish("restore", Restore(cfg, ent, db, valid, clock'))

\* Model.query({withTrashed}) [.where / .orWhere ('email', 'x')] .get()
ScopedQuery(withTrashed, extra) ==
  LET q == ModelQuery(cfg.model, withTrashed)
  IN IF extra = "where" THEN WhereBasic(q, "AND", "email", "=", "x")
     ELSE IF extra = "orWhere" THEN WhereBasic(q, "OR", "email", "=", "x")
     ELSE q

GetRows(withTrashed, extra) ==
  LET qb == ScopedQuery(withTrashed, extra)
      sts == SelectStmts(qb)
  IN /\ Tick
     /\ call' = Call("get", IF sts = <<>> THEN "Error" ELSE "ok", sts, ent, withTrashed, extra,
                     IF sts = <<>> THEN {} ELSE Selected(db, qb))
     /\ UNCHANGED <<cfg, ent, db>>

\* Model.query({withTrashed}).where('id', id).first(): the entity of the row
LoadEntity(id, withTrashed) ==
  LET qb == Limit(WhereBasic(ModelQuery(cfg.model, withTrashed), "AND", "id", "=", id), 1)
      sts == SelectStmts(qb)
      found == sts # <<>> /\ Selected(db, qb) # {}
  IN /\ Tick
     /\ ent' = IF found THEN Entity(db.rows[id], db.rows[id], TRUE) ELSE ent
     /\ call' = Call("first", IF sts = <<>> THEN "Error" ELSE "ok", sts, ent, withTrashed, "where",
                     IF sts = <<>> THEN {} ELSE Selected(db, qb))
     /\ UNCHANGED <<cfg, db>>

\* new QueryBuilder(table).where('id', id).update({deleted_at: new Date()})
BuilderSoftDelete(id) ==
  LET qb == WhereBasic(NewQB(db.table, NoModel), "AND", "id", "=", id)
      sts == UpdateStmts(qb, [NoAttrs EXCEPT !["deleted_at"] = DateAt(clock')])
  IN /\ Tick
     /\ db.rows[id]["id"] # Absent
     /\ db' = ExecAll(db, sts)
     /\ call' = Call("update", "ok", sts, ent, FALSE, "none", {})
     /\ UNCHANGED <<cfg, ent>>

\* ========================================================================
\* Eager loading: QueryBuilder.with / get / _eagerLoad and Relation.eagerLoad
\* ========================================================================
\* the relation methods of the type User
\* "nope" is a name the entity type has no method for.
EagerNames == {"profile", "posts", "team", "roles", "comments", "image", "nope"}

RelationKind(name) ==
  CASE name = "profile" -> "hasOne"
    [] name = "posts" -> "hasMany"
    [] name = "comments" -> "hasMany"
    [] name = "team" -> "belongsTo"
    [] name = "roles" -> "belongsToMany"
    [] name = "nope" -> "none"
    [] OTHER -> "morphOne"

EagerRelated(name) ==
  CASE name = "profile" -> "Profile"
    [] name = "posts" -> "Post"
    [] name = "comments" -> "Comment"
    [] name = "team" -> "Team"
    [] name = "roles" -> "Role"
    [] OTHER -> "Image"

EagerTable(m) ==
  CASE m = "Profile" -> "profiles"
    [] m = "Team" -> "teams"
    [] m = "Role" -> "roles"
    [] m = "Image" -> "images"
    [] OTHER -> TableOf(m)

\* the classes that define eagerLoad
HasEagerLoad(kind) == kind \in {"belongsTo", "hasOne", "hasMany", "belongsToMany"}

IdSeq(ids) == SelectSeq(<<"1", "2">>, LAMBDA i : i \in ids)

\* Relation.eagerLoad(parents, relName): the statements it sends, and whether
\* it throws.  BelongsTo filters the empty foreign keys out; BelongsToMany
\* reads the pivot rows and then, when there are any, the related rows with
\* a builder of its own; the others query through relatedClass.query().
EagerBuilders(name, e) ==
  LET kind == RelationKind(name)
      m == EagerRelated(name)
      scoped == [(ModelQuery(m, FALSE)) EXCEPT !.table = EagerTable(m)]
  IN CASE kind = "belongsTo" -> <<WhereIn(scoped, "id", IdSeq(e.teams))>>
       [] kind = "belongsToMany" ->
            <<WhereIn(NewQB("role_user", NoModel), "user_id", IdSeq(e.rows))>> \o
            (IF e.pivots = {} THEN <<>>
             ELSE <<WhereIn(NewQB(EagerTable(m), m), "id", <<"1">>)>>)
       [] OTHER -> <<WhereIn(scoped, "user_id", IdSeq(e.rows))>>

RECURSIVE SendAll(_, _)

\* the builders' get() in order, up to the first that throws
SendAll(bs, sent) ==
  IF bs = <<>> THEN [sent |-> sent, threw |-> FALSE]
  ELSE IF CompileSelectThrows(<<>>, Head(bs)) THEN [sent |-> sent, threw |-> TRUE]
  ELSE SendAll(Tail(bs), sent \o SelectStmts(Head(bs)))

RECURSIVE EagerLoad(_, _, _, _)

\* QueryBuilder._eagerLoad(models): for each name of _with
EagerLoad(e, i, sent, loaded) ==
  IF i > Len(e.with) THEN [sent |-> sent, loaded |-> loaded, outcome |-> "ok"]
  ELSE IF e.rows = {} THEN [sent |-> sent, loaded |-> loaded, outcome |-> "ok"]
  ELSE IF ~HasEagerLoad(RelationKind(e.with[i]))
       THEN [sent |-> sent, loaded |-> loaded, outcome |-> "Error"]
       ELSE LET r == SendAll(EagerBuilders(e.with[i], e), sent)
            IN IF r.threw THEN [sent |-> r.sent, loaded |-> loaded, outcome |-> "Error"]
               ELSE EagerLoad(e, i + 1, r.sent, Append(loaded, e.with[i]))

\* QueryBuilder.get() on User.query().with(...)
GetWith(e) ==
  LET main == SelectStmts(ModelQuery("User", FALSE))
  IN IF e.with = <<>> THEN [sent |-> main, loaded |-> <<>>, outcome |-> "ok"]
     ELSE EagerLoad(e, 1, main, <<>>)

\* the value a parent holds under a relation name
RelValue(kind, items) == [kind |-> kind, items |-> items]

UndefinedValue == RelValue("undefined", <<>>)

IsToMany(kind) == kind \in {"hasMany", "belongsToMany"}

\* an eagerLoad that assigns nothing to a parent without a match
EagerNoDefault(kind) == UndefinedValue

\* what eagerLoad gives a parent without a match: grouped.set(key, []) and
\* the empty pivot list for the to-many kinds, `|| null` for the to-one kinds
EagerDefault(kind) == IF IsToMany(kind) THEN RelValue("list", <<>>) ELSE RelValue("null", <<>>)

\* the related rows the queries of eagerLoad return for parent p
Matches(name, e, p) ==
  CASE RelationKind(name) = "belongsTo" -> IF p \in e.teams THEN <<"1">> ELSE <<>>
    [] RelationKind(name) = "belongsToMany" -> IF p \in e.pivots THEN <<"1">> ELSE <<>>
    [] OTHER -> IF p \in e.kids THEN <<p>> ELSE <<>>

\* parent[relName] = ... at the end of eagerLoad
EagerValue(name, e, p) ==
  LET kind == RelationKind(name)
      ms == Matches(name, e, p)
  IN IF ms = <<>> THEN EagerDefault(kind)
     ELSE IF IsToMany(kind) THEN RelValue("list", ms) ELSE RelValue("entity", <<ms[1]>>)

\* the values of the parents after the eagerLoad of the names in loaded
ValuesOf(e, loaded) ==
  [p \in RowIds |-> [n \in EagerNames |->
     IF p \in e.rows /\ (\E i \in 1..Len(loaded) : loaded[i] = n)
     THEN EagerValue(n, e, p) ELSE UndefinedValue]]

NoEager == [rows |-> {}, teams |-> {}, pivots |-> {}, kids |-> {}, with |-> <<>>,
            got |-> FALSE, sent |-> <<>>, loaded |-> <<>>, outcome |-> "ok",
            values |-> [p \in RowIds |-> [n \in EagerNames |-> UndefinedValue]]]

\* the stored rows: the users the main query returns, those of them with a
\* team key, those with a pivot row, and those with rows that reference them
InitEager ==
  \E rows \in SUBSET RowIds :
    \E teams \in SUBSET rows, pivots \in SUBSET rows, kids \in SUBSET rows :
      eager = [NoEager EXCEPT !.rows = rows, !.teams = teams, !.pivots = pivots,
                              !.kids = kids]

\* builder.with(name)
With(name) ==
  /\ Len(eager.with) < MaxWith
  /\ eager' = [eager EXCEPT
                 !.with = IF \E i \in 1..Len(@) : @[i] = name THEN @ ELSE Append(@, name),
                 !.got = FALSE, !.sent = <<>>, !.loaded = <<>>, !.outcome = "ok",
                 !.values = NoEager.values]

\* builder.get()
Get ==
  LET r == GetWith(eager)
  IN /\ ~eager.got
     /\ eager' = [eager EXCEPT !.got = TRUE, !.sent = r.sent, !.loaded = r.loaded,
                               !.outcome = r.outcome, !.values = ValuesOf(eager, r.loaded)]

\* ========================================================================
\* Pivot mutators of a many-to-many relation: BelongsToMany.attach / detach /
\* sync on user 1 and its roles
\* ========================================================================
\* pivot: the related keys the pivot table holds for the parent, whether the
\* table holds a row without keys, and the last sync() with its statements.
VARIABLE pivot

RoleIds == {"1", "2", "3", "4"}

RoleSeq(ids) == SelectSeq(<<"1", "2", "3", "4">>, LAMBDA i : i \in ids)

Range(q) == { q[i] : i \in 1..Len(q) }

PivotColumns == {"user_id", "role_id"}

\* QueryBuilder.insert(values) called with an array: Object.keys gives the
\* indexes as the column names and Object.values the row objects as bindings
InsertRowsStmt(b, rows) ==
  Stmt("INSERT", b.table, [i \in 1..Len(rows) |-> ToString(i - 1)],
       [i \in 1..Len(rows) |-> "{user_id:1,role_id:" \o rows[i] \o "}"], <<>>)

\* BelongsToMany.attach(ids)
AttachStmts(ids) == <<InsertRowsStmt(NewQB("role_user", NoModel), ids)>>

\* BelongsToMany.detach(ids): an array, even an empty one, is truthy
DetachPivotStmts(ids) ==
  DeleteStmts(WhereIn(WhereBasic(NewQB("role_user", NoModel), "AND", "user_id", "=", "1"),
                      "role_id", ids))

\* the row source on the pivot table.  An INSERT that names a column the
\* table does not have is rejected; an INSERT without columns stores a row
\* of defaults or is rejected, depending on the driver (blankOk); a DELETE
\* removes the rows of the parent whose related key its IN list names.
PivotRejects(st, blankOk) ==
  st.kind = "INSERT" /\ (IF st.cols = <<>> THEN ~blankOk ELSE ~(Range(st.cols) \subseteq PivotColumns))

PivotRow(r) == [user_id |-> "1", role_id |-> r]

PivotExec(pv, st) ==
  CASE st.kind = "INSERT" -> [pv EXCEPT !.blank = TRUE]
    [] st.kind = "DELETE" ->
         [pv EXCEPT !.current = { r \in @ : ~WhereHolds(st.wheres, PivotRow(r), 1, TRUE) }]
    [] OTHER -> pv

NoSync == [called |-> FALSE, op |-> "none", before |-> {}, ids |-> <<>>, attached |-> <<>>,
           detached |-> <<>>, sent |-> <<>>, outcome |-> "ok"]

\* BelongsToMany.sync(ids)
Sync(pv, ids, blankOk) ==
  LET currentIds == RoleSeq(pv.current)
      toAttach == SelectSeq(ids, LAMBDA i : i \notin Range(currentIds))
      toDetach == SelectSeq(currentIds, LAMBDA i : i \notin Range(ids))
      select == SelectStmts(WhereBasic(NewQB("role_user", NoModel), "AND", "user_id", "=", "1"))
      ins == AttachStmts(toAttach)
      del == DetachPivotStmts(toDetach)
      made == [NoSync EXCEPT !.called = TRUE, !.op = "sync", !.before = pv.current, !.ids = ids]
  IN IF PivotRejects(ins[1], blankOk)
     THEN [pv EXCEPT !.last = [made EXCEPT !.sent = select \o ins, !.outcome = "Error"]]
     ELSE [PivotExec(PivotExec(pv, ins[1]), del[1]) EXCEPT
             !.last = [made EXCEPT !.sent = select \o ins \o del, !.attached = toAttach,
                                   !.detached = toDetach]]

NoPivot == [current |-> {}, blank |-> FALSE, last |-> NoSync]

InitPivot == \E c \in SUBSET RoleIds : pivot = [NoPivot EXCEPT !.current = c]

\* relation.sync(ids)
SyncRoles(ids, blankOk) == pivot' = Sync(pivot, ids, blankOk)

\* BelongsToMany.attach(ids): the rows are handed to insert as one array
AttachIds(pv, ids, blankOk) ==
  LET ins == AttachStmts(ids)
      made == [NoSync EXCEPT !.op = "attach", !.before = pv.current, !.ids = ids,
                             !.sent = ins]
  IN IF PivotRejects(ins[1], blankOk)
     THEN [pv EXCEPT !.last = [made EXCEPT !.outcome = "Error"]]
     ELSE [PivotExec(pv, ins[1]) EXCEPT !.last = made]

\* BelongsToMany.detach(): ids = null, no IN predicate is added
DetachAllStmts ==
  DeleteStmts(WhereBasic(NewQB("role_user", NoModel), "AND", "user_id", "=", "1"))

\* BelongsToMany.detach(ids), ids omitted or an array
DetachIds(pv, ids, omitted) ==
  LET del == IF omitted THEN DetachAllStmts ELSE DetachPivotStmts(ids)
  IN [PivotExec(pv, del[1]) EXCEPT
        !.last = [NoSync EXCEPT !.op = IF omitted THEN "detachAll" ELSE "detach",
                                !.before = pv.current, !.ids = ids, !.sent = del]]

\* relation.attach(ids)
AttachRoles(ids, blankOk) == pivot' = AttachIds(pivot, ids, blankOk)

\* relation.detach() and relation.detach(ids)
DetachRoles(ids, omitted) == pivot' = DetachIds(pivot, ids, omitted)

\* new QueryBuilder(pivotTable).insert({user_id: 1, role_id: id})
InsertPivotRow(id) ==
  /\ id \notin pivot.current
  /\ pivot' = [pivot EXCEPT !.current = @ \cup {id}, !.last = NoSync]

\* ========================================================================
\* DB.transaction(fn)
\* ========================================================================
\* tx: the transaction being run: where its control is, the driver, the calls
\* made on the connection in order, whether fn returned, how the call ended,
\* and the number of transactions started.
VARIABLE tx

Drivers == {"mysql", "pg", "sqlite"}

\* mysql and pg take a connection from the pool; sqlite uses its one handle
Pooled(driver) == driver \in {"mysql", "pg"}

NoTx == [pc |-> "idle", driver |-> "mysql", events |-> <<>>, fnOk |-> FALSE,
         rolledBack |-> FALSE, outcome |-> "none", n |-> 0]

\* a catch block that rethrows without releasing the connection
AfterRollbackNoRelease(t) ==
  [t EXCEPT !.events = Append(@, "rollback"), !.pc = "done", !.outcome = "throw"]

\* the catch block: try { rollback } catch {}; release; throw err
AfterRollback(t) ==
  [t EXCEPT !.events = @ \o (IF Pooled(t.driver) THEN <<"rollback", "release">> ELSE <<"rollback">>),
            !.pc = "done", !.outcome = "throw"]

\* after the commit resolved: release; return res
AfterCommit(t) ==
  [t EXCEPT !.events = @ \o (IF Pooled(t.driver) THEN <<"commit", "release">> ELSE <<"commit">>),
            !.pc = "done", !.outcome = "return"]

\* DB.transaction(fn): connect and take the connection
TxStart(driver, ok) ==
  /\ tx.pc \in {"idle", "done"}
  /\ tx.n < MaxTx
  /\ tx' = IF ok
           THEN [NoTx EXCEPT !.pc = "begin", !.driver = driver, !.n = tx.n + 1,
                             !.events = IF Pooled(driver) THEN <<"acquire">> ELSE <<>>]
           ELSE [NoTx EXCEPT !.pc = "done", !.driver = driver, !.n = tx.n + 1,
                             !.outcome = "throw"]

\* conn.beginTransaction() / BEGIN
TxBegin(ok) ==
  /\ tx.pc = "begin"
  /\ tx' = [tx EXCEPT !.events = Append(@, "begin"), !.pc = IF ok THEN "fn" ELSE "catch"]

\* await fn(conn): fn is entered
TxFn ==
  /\ tx.pc = "fn"
  /\ tx' = [tx EXCEPT !.events = Append(@, "fn"), !.pc = "infn"]

\* a statement fn sends on the connection; its failure is thrown by fn
TxQuery(ok) ==
  /\ tx.pc = "infn"
  /\ Len(SelectSeq(tx.events, LAMBDA e : e = "query")) < MaxFnQueries
  /\ tx' = [tx EXCEPT !.events = Append(@, "query"), !.pc = IF ok THEN "infn" ELSE "catch"]

\* fn returns, or throws an error of its own
TxFnEnd(ok) ==
  /\ tx.pc = "infn"
  /\ tx' = [tx EXCEPT !.fnOk = ok, !.pc = IF ok THEN "commit" ELSE "catch"]

\* conn.commit() / COMMIT
TxCommit(ok) ==
  /\ tx.pc = "commit"
  /\ tx' = IF ok THEN AfterCommit(tx)
           ELSE [tx EXCEPT !.events = Append(@, "commit"), !.pc = "catch"]

\* conn.rollback() / ROLLBACK, whose own failure is swallowed
TxRollback(ok) ==
  /\ tx.pc = "catch"
  /\ tx' = [AfterRollback(tx) EXCEPT !.rolledBack = ok]

\* ========================================================================
\* DB.raw(sql, params): bounded retry
\* ========================================================================
\* retry: one DB.raw call: retryAttempts, the attempt counter, what each
\* attempt met in order, the number of times the statement was sent, and how
\* the call is ending.
VARIABLE retry

\* the errors a driver raises, by message and code
ErrorMessages == {"Connection lost: The server closed the connection.", "Pool is DEAD",
                  "Query inactivity timeout", "You have an error in your SQL syntax", ""}

ErrorCodes == {"PROTOCOL_CONNECTION_LOST", "ECONNRESET", "ER_PARSE_ERROR", ""}

Errors == [message : ErrorMessages, code : ErrorCodes]

\* String(err.message).toLowerCase().includes(word)
Includes(message, word) ==
  CASE word = "lost" -> message = "Connection lost: The server closed the connection."
    [] word = "dead" -> message = "Pool is DEAD"
    [] word = "timeout" -> message = "Query inactivity timeout"
    [] OTHER -> FALSE

\* a classifier that takes every failure for a transient one
AlwaysTransient(err) == TRUE

\* the classification in the catch block of raw()
IsTransient(err) ==
  \/ Includes(err.message, "dead")
  \/ Includes(err.message, "lost")
  \/ Includes(err.message, "timeout")
  \/ err.code = "PROTOCOL_CONNECTION_LOST"
  \/ err.code = "ECONNRESET"

NoError == [message |-> "", code |-> ""]

Met(what, err) == [what |-> what, err |-> err]

\* the statements the builder hands to raw(): get / first / count, and
\* insert, update, delete
StatementKinds == {"SELECT", "INSERT", "UPDATE", "DELETE"}

NoRaw == [pc |-> "idle", max |-> 1, kind |-> "SELECT", attempt |-> 0, met |-> <<>>,
          sends |-> 0, outcome |-> "none"]

\* DB.raw(sql, params) with DB.retryAttempts = max, for a statement of the
\* given kind; raw() does not look at the kind.  retryAttempts is a
\* public static field: initFromEnv keeps it at 1 or more, an assignment
\* can set it to 0.
RawStart(max, kind) ==
  /\ retry.pc = "idle"
  /\ retry' = [NoRaw EXCEPT !.pc = "loop", !.max = max, !.kind = kind]

\* the loop is left without a return: throw 'exhausted all retry attempts'
RawExhausted ==
  /\ retry.pc = "loop"
  /\ ~(retry.attempt < retry.max)
  /\ retry' = [retry EXCEPT !.pc = "done", !.outcome = "DBError"]

\* one turn of the loop in which connect() fails: its error leaves raw()
RawConnectFails ==
  /\ retry.pc = "loop"
  /\ retry.attempt < retry.max
  /\ retry' = [retry EXCEPT !.attempt = @ + 1, !.met = Append(@, Met("connect", NoError)),
                            !.pc = "done", !.outcome = "Error"]

\* one turn of the loop in which the statement is sent and answered
RawSucceeds ==
  /\ retry.pc = "loop"
  /\ retry.attempt < retry.max
  /\ retry' = [retry EXCEPT !.attempt = @ + 1, !.met = Append(@, Met("rows", NoError)),
                            !.sends = @ + 1, !.pc = "done", !.outcome = "rows"]

\* one turn of the loop in which the statement is sent and fails with err
RawFails(err) ==
  /\ retry.pc = "loop"
  /\ retry.attempt < retry.max
  /\ retry' = [retry EXCEPT
                 !.attempt = @ + 1, !.met = Append(@, Met("error", err)), !.sends = @ + 1,
                 !.pc = IF retry.attempt + 1 < retry.max /\ IsTransient(err) THEN "loop" ELSE "done",
                 !.outcome = IF retry.attempt + 1 < retry.max /\ IsTransient(err)
                             THEN "none" ELSE "DBError"]

\* ---------------------------------------------------------------------
\* Operators handed to the builder methods that write them into SQL text
\* ---------------------------------------------------------------------
VARIABLE opcall

OperatorMethods ==
  {"where", "orWhere", "whereNot", "whereColumn", "orWhereColumn",
   "having", "orHaving", "join"}

\* Operators a caller may hand over: allow-listed ones in either case,
\* and ones outside the allow-list.
Operators == {"=", "like", "<>", "IN", "= 1 OR 1 = 1 --"}

\* whereNot(column, operator, value): "=" becomes "!=", "IN" becomes
\* "NOT IN", every other operator is pushed as it was given.
WhereNotOperator(b, col, op, v) ==
  PushWhere(b, Node("basic", "AND", col,
                    IF op = "=" THEN "!=" ELSE IF op = "IN" THEN "NOT IN" ELSE op,
                    <<v>>, <<v>>, 0, "", TRUE))

OrWhereColumn(b, first, op, second) ==
  PushWhere(b, Node("columns", "OR", first, op, <<>>, <<>>, 0, second, FALSE))

Join(b, type, table, first, op, second) ==
  [b EXCEPT !.joins = Append(@, [type |-> type, table |-> table, first |-> first,
                                 operator |-> op, second |-> second])]

\* where and orWhere are the methods that pass the operator through
\* _normalizeOperator, which throws outside the allow-list.
MethodThrows(method, op) == method \in {"where", "orWhere"} /\ OperatorThrows(op)

OperatorCall(b, method, op) ==
  CASE method = "where" -> WhereBasic(b, "AND", "c", op, "a")
    [] method = "orWhere" -> WhereBasic(b, "OR", "c", op, "a")
    [] method = "whereNot" -> WhereNotOperator(b, "c", op, "a")
    [] method = "whereColumn" -> WhereColumn(b, "c", op, "d")
    [] method = "orWhereColumn" -> OrWhereColumn(b, "c", op, "d")
    [] method = "having" -> PushHaving(b, "c", op, "a", "AND")
    [] method = "orHaving" -> PushHaving(b, "c", op, "a", "OR")
    [] method = "join" -> Join(b, "INNER", "posts", "c", op, "d")

\* The operators the compiler writes into the SQL text of builder b.
InterpolatedOperators(b) ==
  {b.wheres[i].operator : i \in {j \in DOMAIN b.wheres : b.wheres[j].type \in {"basic", "columns"}}}
  \cup {b.having[i].operator : i \in DOMAIN b.having}
  \cup {b.joins[i].operator : i \in DOMAIN b.joins}

NoOpCall == [qb |-> NewQB("users", NoModel), before |-> NewQB("users", NoModel),
             method |-> "", operator |-> "", values |-> <<>>, threw |-> FALSE, n |-> 0]

CallOperator(method, op) ==
  /\ opcall.n < MaxOpCalls
  /\ opcall' = [qb |-> IF MethodThrows(method, op) THEN opcall.qb
                       ELSE OperatorCall(opcall.qb, method, op),
                before |-> opcall.qb, method |-> method, operator |-> op,
                values |-> <<>>,
                threw |-> MethodThrows(method, op), n |-> opcall.n + 1]

\* The lists handed to whereIn and whereNotIn.
MembershipLists == {<<>>, <<"a">>, <<"a", "D">>}

\* builder.whereIn('c', values) and builder.whereNotIn('c', values)
CallMembership(method, values) ==
  /\ opcall.n < MaxOpCalls
  /\ opcall' = [qb |-> IF method = "whereIn" THEN WhereIn(opcall.qb, "c", values)
                       ELSE WhereNotIn(opcall.qb, "c", values),
                before |-> opcall.qb, method |-> method, operator |-> "",
                values |-> values, threw |-> FALSE, n |-> opcall.n + 1]

\* ---------------------------------------------------------------------
\* Read terminals: first, exists, count, the aggregates, pluck, paginate
\* ---------------------------------------------------------------------
VARIABLE term

Terminals ==
  {"first", "firstOrFail", "exists", "doesntExist", "count", "sum", "avg",
   "min", "max", "countDistinct", "pluck"}

\* const c = this._clone(): the heap with the clone on it, and the clone's id.
TerminalOnSelf(h, id) == [h |-> h, c |-> id]

TerminalClone(h, id) == [h |-> CloneHeap(h, id), c |-> Len(h) + 1]

\* What each terminal does to c, the builder _clone() returned.
First(c) == Limit(c, 1)

Exists(c) == Limit([c EXCEPT !.select = <<"1">>, !.orders = <<>>], 1)

Aggregate(c, expr) ==
  [c EXCEPT !.select = <<expr \o " AS aggregate">>, !.orders = <<>>,
            !.limit = NoLimit, !.offset = NoLimit]

AggregateExpr(name) ==
  CASE name = "count" -> "COUNT(*)"
    [] name = "sum" -> "SUM(" \o EscapeId("c") \o ")"
    [] name = "avg" -> "AVG(" \o EscapeId("c") \o ")"
    [] name = "min" -> "MIN(" \o EscapeId("c") \o ")"
    [] name = "max" -> "MAX(" \o EscapeId("c") \o ")"
    [] name = "countDistinct" -> "COUNT(DISTINCT " \o EscapeId("c") \o ")"

Pluck(c, col) == [c EXCEPT !.select = <<EscapeId(col)>>]

ReadTerminal(c, name) ==
  CASE name \in {"first", "firstOrFail"} -> First(c)
    [] name \in {"exists", "doesntExist"} -> Exists(c)
    [] name = "pluck" -> Pluck(c, "c")
    [] OTHER -> Aggregate(c, AggregateExpr(name))

Max(a, b) == IF a >= b THEN a ELSE b

\* Math.ceil(a / b) for a >= 0 and b > 0
Ceil(a, b) == (a + b - 1) \div b

Paginator(total, page, perPage) ==
  [total |-> total, page |-> Max(1, page), perPage |-> Max(1, perPage),
   lastPage |-> Max(1, Ceil(total, Max(1, perPage)))]

NoPaginator == [total |-> 0, page |-> 0, perPage |-> 0, lastPage |-> 0]

\* sent: the builders whose SQL the call sent, in order (they stay on the
\* heap as the call left them).
NoTerm == [name |-> "none", target |-> 0, before |-> <<>>, sent |-> <<>>,
           page |-> 0, perPage |-> 0, total |-> 0, result |-> NoPaginator]

\* builder.first() and the other terminals that take no page: the clone is
\* shaped and its SQL is sent.
Terminal(id, name) ==
  /\ term = NoTerm
  /\ \E k \in {TerminalClone(heap, id)} :
       /\ heap' = [k.h EXCEPT ![k.c] = ReadTerminal(@, name)]
       /\ term' = [NoTerm EXCEPT !.name = name, !.target = id, !.before = heap,
                                 !.sent = <<k.c>>]
  /\ UNCHANGED <<lastTarget, clones, ops>>

\* builder.paginate(page, perPage) when total rows match: the count clone
\* is shaped and counted (count() clones it again and sends), then a second
\* clone of the builder carries the limit and the offset and is sent.
Paginate(id, page, perPage, total) ==
  /\ term = NoTerm
  /\ \E k1 \in {TerminalClone(heap, id)} :
     \E h1 \in {[k1.h EXCEPT ![k1.c] = Aggregate(@, AggregateExpr("count"))]} :
     \E k2 \in {TerminalClone(h1, k1.c)} :
     \E h2 \in {[k2.h EXCEPT ![k2.c] = Aggregate(@, AggregateExpr("count"))]} :
     \E k3 \in {TerminalClone(h2, id)} :
       /\ heap' = [k3.h EXCEPT ![k3.c] =
                     Offset(Limit(@, Max(1, perPage)), (Max(1, page) - 1) * Max(1, perPage))]
       /\ term' = [name |-> "paginate", target |-> id, before |-> heap,
                   sent |-> <<k2.c, k3.c>>, page |-> page, perPage |-> perPage,
                   total |-> total,
                   result |-> Paginator(total, Max(1, page), Max(1, perPage))]
  /\ UNCHANGED <<lastTarget, clones, ops>>

\* ---------------------------------------------------------------------
\* Batches: createMany, fetchOrCreateMany and updateOrCreateMany run their
\* items inside DB.transaction(async () => ...).  The callback does not use
\* the connection it is handed: create(), save() and first() go through
\* DB.raw, which queries the pool.
\* ---------------------------------------------------------------------
\* batch: where the call is, the driver, the method and its items, the
\* number of items done, the items whose write the row source has stored
\* outside the transaction, the items written inside it and not yet
\* committed, and how the call ended.
VARIABLE batch

BatchMethods == {"createMany", "fetchOrCreateMany", "updateOrCreateMany"}

\* What happens to an item: its row is found (and for updateOrCreateMany
\* updated), it is created, validation refuses it, the row source fails.
ItemKinds(method) ==
  CASE method = "createMany" -> {"create", "invalid", "dbfail"}
    [] method = "fetchOrCreateMany" -> {"found", "create", "invalid", "dbfail"}
    [] OTHER -> {"update", "create", "invalid", "dbfail"}

RECURSIVE ItemSeqs(_, _)

ItemSeqs(method, n) ==
  IF n = 0 THEN {<<>>}
  ELSE { Append(q, k) : q \in ItemSeqs(method, n - 1), k \in ItemKinds(method) }

NoBatch == [pc |-> "idle", driver |-> "mysql", method |-> "none", items |-> <<>>,
            k |-> 0, stored |-> {}, inTx |-> {}, outcome |-> "none"]

\* DB.raw runs the statement with pool.query: on mysql and pg that is a
\* pool connection of its own, not the one the transaction holds; on
\* sqlite the pool and the transaction are the same database handle.
RawInTransaction(driver) == driver = "sqlite"

\* Model.createMany(arr) and the others: connection taken, BEGIN
BatchStart(driver, method, items) ==
  /\ batch.pc = "idle"
  /\ batch' = [NoBatch EXCEPT !.pc = "loop", !.driver = driver, !.method = method,
                              !.items = items]

\* one turn of the loop: the item writes through DB.raw, or fails
BatchItem ==
  /\ batch.pc = "loop"
  /\ batch.k < Len(batch.items)
  /\ LET it == batch.items[batch.k + 1]
         writes == it \in {"create", "update"}
     IN batch' = [batch EXCEPT
          !.k = @ + 1,
          !.pc = IF it \in {"invalid", "dbfail"} THEN "catch" ELSE "loop",
          !.stored = IF writes /\ ~RawInTransaction(batch.driver)
                     THEN @ \cup {batch.k + 1} ELSE @,
          !.inTx = IF writes /\ RawInTransaction(batch.driver)
                   THEN @ \cup {batch.k + 1} ELSE @]

\* the callback returned: COMMIT
BatchCommit ==
  /\ batch.pc = "loop"
  /\ batch.k = Len(batch.items)
  /\ batch' = [batch EXCEPT !.pc = "done", !.outcome = "ok",
                            !.stored = @ \cup batch.inTx, !.inTx = {}]

\* the callback threw: ROLLBACK on the transaction's connection, rethrow
BatchRollback ==
  /\ batch.pc = "catch"
  /\ batch' = [batch EXCEPT !.pc = "done", !.outcome = "Error", !.inTx = {}]

\* ---------------------------------------------------------------------
\* Two DB.raw calls on the shared pool.  DB.pool is a static field; every
\* await of raw(), connect() and end() is a point where the other call runs.
\* ---------------------------------------------------------------------
\* conc: DB.pool (0 for null, else the pool object), the number of pool
\* objects created, the pool objects on which end() / close() was called,
\* and for each call: where it is, the pool its local `pool` holds,
\* retryAttempts, its attempt counter, whether the pool was open when
\* connect() returned it, whether it sent a query to a pool already closed,
\* and how it ended.
VARIABLE conc

Procs == {1, 2}

NoProc == [pc |-> "idle", pool |-> 0, max |-> 1, attempt |-> 0, gotOpen |-> FALSE,
           ranClosed |-> FALSE, outcome |-> "none"]

NoConc == [pool |-> 0, created |-> 0, closed |-> {}, proc |-> [p \in Procs |-> NoProc]]

\* DB.raw(sql, params) is called
ConcStart(p, max) ==
  /\ conc.proc[p].pc = "idle"
  /\ conc' = [conc EXCEPT !.proc[p] = [NoProc EXCEPT !.pc = "loop", !.max = max]]

\* DB.connect(): if (this.pool) return this.pool; else create the pool
Connect(c) ==
  IF c.pool # 0 THEN c
  ELSE [c EXCEPT !.pool = c.created + 1, !.created = @ + 1]

\* while (attempt < max) { attempt++; const pool = await this.connect();
ConcConnect(p) ==
  /\ conc.proc[p].pc = "loop"
  /\ conc.proc[p].attempt < conc.proc[p].max
  /\ \E c \in {Connect(conc)} :
       conc' = [c EXCEPT !.proc[p].attempt = @ + 1,
                         !.proc[p].pool = c.pool,
                         !.proc[p].gotOpen = c.pool \notin c.closed,
                         !.proc[p].pc = "connected"]

\* pool.query(sql, params) on the local pool: a pool on which end() was
\* called refuses the query ('Pool is closed.', 'Cannot use a pool after
\* calling end on the pool'), which is not a transient failure: DBError
ConcQuery(p) ==
  /\ conc.proc[p].pc = "connected"
  /\ conc' = IF conc.proc[p].pool \in conc.closed
             THEN [conc EXCEPT !.proc[p].ranClosed = TRUE,
                               !.proc[p].pc = "done",
                               !.proc[p].outcome = "DBError"]
             ELSE [conc EXCEPT !.proc[p].pc = "inflight"]

\* the query is answered: return rows
ConcAnswer(p) ==
  /\ conc.proc[p].pc = "inflight"
  /\ conc' = [conc EXCEPT !.proc[p].pc = "done", !.proc[p].outcome = "rows"]

\* the query fails: a transient failure with attempts left goes on to
\* DB.end(), any other failure is thrown as DBError
ConcFail(p, transient) ==
  /\ conc.proc[p].pc = "inflight"
  /\ conc' = IF transient /\ conc.proc[p].attempt < conc.proc[p].max
             THEN [conc EXCEPT !.proc[p].pc = "end"]
             ELSE [conc EXCEPT !.proc[p].pc = "done", !.proc[p].outcome = "DBError"]

\* DB.end() up to its await: if (!this.pool) return; await this.pool.end()
ConcEnd(p) ==
  /\ conc.proc[p].pc = "end"
  /\ conc' = IF conc.pool = 0
             THEN [conc EXCEPT !.proc[p].pc = "backoff"]
             ELSE [conc EXCEPT !.closed = @ \cup {conc.pool}, !.proc[p].pc = "ending"]

\* DB.end() after its await: this.pool = null
ConcEndDone(p) ==
  /\ conc.proc[p].pc = "ending"
  /\ conc' = [conc EXCEPT !.pool = 0, !.proc[p].pc = "backoff"]

\* the backoff timer fires: continue
ConcBackoff(p) ==
  /\ conc.proc[p].pc = "backoff"
  /\ conc' = [conc EXCEPT !.proc[p].pc = "loop"]

later == <<batch, conc>>

LaterIdle == batch = NoBatch /\ conc = NoConc

rest == <<pivot, tx, retry, opcall, term, later>>

RestIdle == pivot = NoPivot /\ tx = NoTx /\ retry = NoRaw /\ opcall = NoOpCall
            /\ term = NoTerm /\ LaterIdle

QBIdle == heap = <<>> /\ lastTarget = 0 /\ clones = {} /\ ops = 0

EntityIdle == cfg = [model |-> "User", timestamps |-> FALSE, rel |-> NoRelation]
              /\ ent = NewEntity
              /\ db = [table |-> "users", rows |-> [i \in RowIds |-> NoAttrs],
                       posts |-> [p \in PostIds |-> Absent]]
              /\ call = NoCall
              /\ clock = 0

Emails == {"x", "y"}

NextEntity ==
  \/ \E email \in Emails, valid \in BOOLEAN : CreateEntity(email, valid) /\ UNCHANGED <<qbVars, eager, rest>>
  \/ \E email \in Emails : NewInstance(email) /\ UNCHANGED <<qbVars, eager, rest>>
  \/ \E email \in Emails \cup {"", Null} : FillEntity(email) /\ UNCHANGED <<qbVars, eager, rest>>
  \/ \E email \in {"y", Null} : SetAttributeEntity(email) /\ UNCHANGED <<qbVars, eager, rest>>
  \/ \E valid \in BOOLEAN : SaveEntity(valid) /\ UNCHANGED <<qbVars, eager, rest>>
  \/ \E valid \in BOOLEAN : DeleteEntity(valid) /\ UNCHANGED <<qbVars, eager, rest>>
  \/ \E valid \in BOOLEAN : RestoreEntity(valid) /\ UNCHANGED <<qbVars, eager, rest>>
  \/ \E withTrashed \in BOOLEAN, extra \in {"none", "where", "orWhere"} : GetRows(withTrashed, extra) /\ UNCHANGED <<qbVars, eager, rest>>
  \/ \E id \in RowIds, withTrashed \in BOOLEAN : LoadEntity(id, withTrashed) /\ UNCHANGED <<qbVars, eager, rest>>
  \/ \E id \in RowIds : BuilderSoftDelete(id) /\ UNCHANGED <<qbVars, eager, rest>>

vars == <<qbVars, entVars, eager, rest>>

Init == InitEntity /\ QBIdle /\ eager = NoEager /\ RestIdle

Next == NextEntity

Spec == Init /\ [][Next]_vars

\* The builder specification: builders are built and composed.
InitQB == InitBuilders(MaxOps) /\ EntityIdle /\ eager = NoEager /\ RestIdle

NextQB ==
  \/ \E m \in BuilderModels, wt \in BOOLEAN : NewQuery(m, wt) /\ UNCHANGED <<entVars, eager, rest>>
  \/ \E id \in Ids, o \in SimpleOps : Simple(id, o) /\ UNCHANGED <<entVars, eager, rest>>
  \/ \E id \in Ids, s \in Scripts : WhereNested(id, s) /\ UNCHANGED <<entVars, eager, rest>>
  \/ \E id \in Ids, s \in Scripts, neg \in BOOLEAN : WhereExistsCallback(id, s, neg) /\ UNCHANGED <<entVars, eager, rest>>
  \/ \E id \in Ids, child \in Ids, neg \in BOOLEAN : WhereExistsBuilder(id, child, neg) /\ UNCHANGED <<entVars, eager, rest>>
  \/ \E id \in Ids, r \in RelationNames, s \in Scripts : WhereHas(id, r, s) /\ UNCHANGED <<entVars, eager, rest>>
  \/ \E id \in Ids, child \in Ids : WithCTE(id, child) /\ UNCHANGED <<entVars, eager, rest>>
  \/ \E id \in Ids, child \in Ids : Union(id, child) /\ UNCHANGED <<entVars, eager, rest>>

SpecQB == InitQB /\ [][NextQB]_vars

\* The clone specification: builders are built, cloned, and the clones and
\* the builders under them are mutated.
CloneScripts == { s \in Scripts : \A i \in 1..Len(s) : s[i].op = "where" }

InitClone == InitBuilders(MaxCloneOps) /\ EntityIdle /\ eager = NoEager /\ RestIdle

NextClone ==
  \/ NewQuery("Post", FALSE) /\ UNCHANGED <<entVars, eager, rest>>
  \/ \E id \in Ids, o \in CloneOps : Simple(id, o) /\ UNCHANGED <<entVars, eager, rest>>
  \/ \E id \in Ids, s \in CloneScripts : WhereNested(id, s) /\ UNCHANGED <<entVars, eager, rest>>
  \/ \E id \in Ids, s \in CloneScripts : WhereExistsCallback(id, s, FALSE) /\ UNCHANGED <<entVars, eager, rest>>
  \/ \E id \in Ids, child \in Ids : WhereExistsBuilder(id, child, TRUE) /\ UNCHANGED <<entVars, eager, rest>>
  \/ \E id \in Ids, s \in CloneScripts : WhereHas(id, "posts", s) /\ UNCHANGED <<entVars, eager, rest>>
  \/ \E id \in Ids, child \in Ids : WithCTE(id, child) /\ UNCHANGED <<entVars, eager, rest>>
  \/ \E id \in Ids, child \in Ids : Union(id, child) /\ UNCHANGED <<entVars, eager, rest>>
  \/ \E id \in Ids : Clone(id) /\ UNCHANGED <<entVars, eager, rest>>

SpecClone == InitClone /\ [][NextClone]_vars

\* ------------------------------------------------------------------------
\* Claims about the entity lifecycle (specification Spec)
\* ------------------------------------------------------------------------
Writes(trace) == SelectSeq(trace, IsWrite)

OfKind(trace, kind) == SelectSeq(trace, LAMBDA e : e.kind = kind)

ColSet(st) == { st.cols[i] : i \in 1..Len(st.cols) }

PreId == call.pre.attrs["id"]

PersistedBefore == call.pre.exists /\ PreId \in RowIds

\* C3 (validation gate): a call that ends in a ValidationError has sent no
\* INSERT, UPDATE or DELETE, and the stored rows are as they were.
C3_ValidationGate ==
  [][call'.outcome = "ValidationError" => (Writes(call'.trace) = <<>> /\ db' = db)]_vars

\* save() on an existing entity with a changed attribute was refused by the
\* validator
C3_Witness ==
  /\ call.op = "save"
  /\ call.pre.exists
  /\ call.pre.attrs["email"] # call.pre.orig["email"]
  /\ call.outcome = "ValidationError"
  /\ OfKind(call.trace, "VALIDATE") # <<>>

Differing(e) == { k \in Columns : e.attrs[k] # e.orig[k] }

\* C4 (dirty-only update): a save() of a persisted entity that the validator
\* lets through sends no UPDATE when no attribute differs from the snapshot,
\* and when exactly one differs sends exactly one UPDATE whose SET list is
\* that attribute (plus updated_at when timestamps are enabled).
C4_DirtyOnlyUpdate ==
  (call.op = "save" /\ PersistedBefore /\ call.outcome # "ValidationError") =>
    LET diff == Differing(call.pre)
        ups == OfKind(call.trace, "UPDATE")
    IN /\ diff = {} => ups = <<>>
       /\ Cardinality(diff) = 1 =>
            /\ Len(ups) = 1
            /\ ColSet(ups[1]) = diff \cup (IF cfg.timestamps THEN {"updated_at"} ELSE {})

\* C5 (soft delete writes the timestamp): delete() of a persisted entity of
\* a soft-delete type that the validator lets through sends no DELETE, sends
\* an UPDATE that sets deleted_at, and leaves the stored row with a non-null
\* deleted_at.
C5_SoftDeleteWritesTimestamp ==
  (call.op = "delete" /\ PersistedBefore /\ SoftDeletes(cfg.model)
     /\ call.outcome # "ValidationError") =>
    /\ OfKind(call.trace, "DELETE") = <<>>
    /\ \E i \in 1..Len(call.trace) :
         call.trace[i].kind = "UPDATE" /\ "deleted_at" \in ColSet(call.trace[i])
    /\ db.rows[PreId]["deleted_at"] \notin {Null, Absent}

Trashed(row) == row["id"] # Absent /\ row["deleted_at"] # Null

\* C6 (default soft-delete scope): for a soft-delete type a query started
\* from Model.query() runs as a SELECT and returns no row with a non-null
\* deleted_at, whatever predicate is added; a query started from
\* withTrashed() runs and returns every row its own predicates select.
C6_DefaultScope ==
  (SoftDeletes(cfg.model) /\ call.op \in {"get", "first"}) =>
    /\ call.outcome = "ok"
    /\ OfKind(call.trace, "SELECT") # <<>>
    /\ ~call.withTrashed => \A i \in call.rows : ~Trashed(db.rows[i])
    /\ (call.withTrashed /\ call.extra = "none") =>
          call.rows = { i \in RowIds : db.rows[i]["id"] # Absent }

\* C7 (restore): restore() of a persisted soft-deleted entity that the
\* validator lets through sends an UPDATE that sets deleted_at, and the
\* stored row has a null deleted_at afterwards.
C7_Restore ==
  (call.op = "restore" /\ PersistedBefore /\ SoftDeletes(cfg.model)
     /\ ~IsBadValue(call.pre.attrs["deleted_at"])
     /\ call.outcome # "ValidationError") =>
    /\ \E i \in 1..Len(call.trace) :
         call.trace[i].kind = "UPDATE" /\ "deleted_at" \in ColSet(call.trace[i])
    /\ db.rows[PreId]["deleted_at"] = Null

OwnDeletes(trace) == SelectSeq(trace, LAMBDA e : e.kind = "DELETE" /\ e.table = db.table)

RestrictCase ==
  /\ call.op = "delete"
  /\ PersistedBefore
  /\ ~SoftDeletes(cfg.model)
  /\ cfg.rel.behavior = "restrict"
  /\ RelatedRows(call.pre, db) # {}

C9_CascadeDelete ==
  (call.op = "delete" /\ PersistedBefore /\ ~SoftDeletes(cfg.model)
     /\ cfg.rel.behavior = "cascade") =>
    /\ call.outcome = "ok"
    /\ RelatedRows(call.pre, db) = {}
    /\ Len(OwnDeletes(call.trace)) = 1
    /\ call.trace[Len(call.trace)] = OwnDeletes(call.trace)[1]

\* The eager-load specification: relation names are added to a builder and
\* the builder is run.
InitEagerLoad == InitEager /\ QBIdle /\ EntityIdle /\ RestIdle

NextEagerLoad ==
  \/ \E name \in EagerNames : With(name) /\ UNCHANGED <<qbVars, entVars, rest>>
  \/ Get /\ UNCHANGED <<qbVars, entVars, rest>>

SpecEager == InitEagerLoad /\ [][NextEagerLoad]_vars

\* C10 (eager-load query count): a get() on a builder with K eager-load
\* names returns and has sent the main query and exactly K more, whatever
\* the number of parent rows and the kinds of the relations.
C10_EagerQueryCount ==
  eager.got => (eager.outcome = "ok" /\ Len(eager.sent) = 1 + Len(eager.with))

\* C11 (eager-load default value): after a get() that returns, every parent
\* holds a value under every eager-loaded name: a list for the to-many
\* kinds, an entity or null for the to-one kinds, and the empty list or null
\* when no related row matches; never undefined.
C11_EagerDefaultValue ==
  (eager.got /\ eager.outcome = "ok") =>
    \A p \in eager.rows : \A i \in 1..Len(eager.with) :
      LET n == eager.with[i]
          v == eager.values[p][n]
      IN IF IsToMany(RelationKind(n))
         THEN v.kind = "list" /\ (Matches(n, eager, p) = <<>> => v.items = <<>>)
         ELSE v.kind \in {"entity", "null"} /\ (Matches(n, eager, p) = <<>> <=> v.kind = "null")

\* two parents were loaded with a to-many and a to-one relation; one has
\* related rows and the other has none
C11_Witness ==
  /\ eager.got /\ eager.outcome = "ok"
  /\ eager.with = <<"posts", "team">>
  /\ \E p, q \in eager.rows :
       /\ eager.values[p]["posts"] = RelValue("list", <<>>)
       /\ eager.values[p]["team"] = RelValue("null", <<>>)
       /\ eager.values[q]["posts"].items # <<>>

\* The pivot specification: pivot rows are stored and the relation is synced.
notPivot == <<qbVars, entVars, eager, tx, retry, opcall, term, later>>

InitSync == InitPivot /\ QBIdle /\ EntityIdle /\ eager = NoEager /\ tx = NoTx /\ retry = NoRaw
            /\ opcall = NoOpCall /\ term = NoTerm /\ LaterIdle

NextSync ==
  \/ \E ids \in SUBSET RoleIds, blankOk \in BOOLEAN :
       SyncRoles(RoleSeq(ids), blankOk) /\ UNCHANGED notPivot
  \/ \E id \in RoleIds : InsertPivotRow(id) /\ UNCHANGED notPivot

SpecSync == InitSync /\ [][NextSync]_vars

\* C12 (sync): sync(ids) with the pivot set C returns attached = ids minus C
\* and detached = C minus ids, and afterwards the pivot table holds for the
\* parent exactly (C minus detached) plus attached, and nothing else new.
C12_Sync ==
  pivot.last.called =>
    LET C == pivot.last.before
        ids == Range(pivot.last.ids)
    IN /\ pivot.last.outcome = "ok"
       /\ Range(pivot.last.attached) = ids \ C
       /\ Range(pivot.last.detached) = C \ ids
       /\ pivot.current = ids
       /\ ~pivot.blank

\* The transaction specification: transactions are run one after another,
\* and each call on the connection succeeds or fails.
notTx == <<qbVars, entVars, eager, pivot, retry, opcall, term, later>>

InitTx == tx = NoTx /\ QBIdle /\ EntityIdle /\ eager = NoEager /\ pivot = NoPivot /\ retry = NoRaw
          /\ opcall = NoOpCall /\ term = NoTerm /\ LaterIdle

NextTx ==
  \/ \E driver \in Drivers, ok \in BOOLEAN : TxStart(driver, ok) /\ UNCHANGED notTx
  \/ \E ok \in BOOLEAN : TxBegin(ok) /\ UNCHANGED notTx
  \/ TxFn /\ UNCHANGED notTx
  \/ \E ok \in BOOLEAN : TxQuery(ok) /\ UNCHANGED notTx
  \/ \E ok \in BOOLEAN : TxFnEnd(ok) /\ UNCHANGED notTx
  \/ \E ok \in BOOLEAN : TxCommit(ok) /\ UNCHANGED notTx
  \/ \E ok \in BOOLEAN : TxRollback(ok) /\ UNCHANGED notTx

SpecTx == InitTx /\ [][NextTx]_vars

Count(q, x) == Len(SelectSeq(q, LAMBDA e : e = x))

Position(q, x) == IF Count(q, x) = 0 THEN 0 ELSE CHOOSE i \in 1..Len(q) : q[i] = x

TxFinished == tx.pc = "done" /\ Pooled(tx.driver) /\ tx.events # <<>>

\* C13 (transaction lifecycle): a finished transaction on a pooled driver
\* began first, ran fn only after the begin, issued the commit exactly when
\* fn returned, issued a rollback before it threw, returned only after a
\* commit without a rollback, and released its connection exactly once, as
\* its last call.
C13_TransactionLifecycle ==
  TxFinished =>
    LET ev == SelectSeq(tx.events, LAMBDA e : e # "query")
    IN /\ ev[1] = "acquire" /\ ev[2] = "begin"
       /\ \A i \in 1..Len(tx.events) :
            tx.events[i] = "query" => (Position(tx.events, "fn") \in 1..(i - 1)
                                       /\ \A j \in 1..i : tx.events[j] \notin {"commit", "rollback"})
       /\ Count(ev, "fn") <= 1
       /\ Count(ev, "fn") = 1 => ev[3] = "fn"
       /\ (Count(ev, "commit") = 1) = tx.fnOk
       /\ Count(ev, "commit") = 1 => Position(ev, "commit") = Position(ev, "fn") + 1
       /\ tx.outcome = "throw" => Count(ev, "rollback") = 1
       /\ tx.outcome = "return" => (tx.fnOk /\ Count(ev, "rollback") = 0)
       /\ tx.outcome \in {"return", "throw"}
       /\ Count(ev, "release") = 1 /\ ev[Len(ev)] = "release"

\* fn threw inside a begun transaction on a pooled driver, and the call
\* has ended
C13_Witness ==
  /\ TxFinished
  /\ tx.events = <<"acquire", "begin", "fn", "query", "rollback", "release">>
  /\ tx.outcome = "throw"

\* The retry specification: one DB.raw call, each attempt of which succeeds
\* or fails with some error.
notRetry == <<qbVars, entVars, eager, pivot, tx, opcall, term, later>>

InitRetry == retry = NoRaw /\ QBIdle /\ EntityIdle /\ eager = NoEager /\ pivot = NoPivot
             /\ tx = NoTx /\ opcall = NoOpCall /\ term = NoTerm /\ LaterIdle

NextRetry ==
  \/ \E max \in 0..MaxRetry, kind \in StatementKinds :
       RawStart(max, kind) /\ UNCHANGED notRetry
  \/ RawExhausted /\ UNCHANGED notRetry
  \/ RawConnectFails /\ UNCHANGED notRetry
  \/ RawSucceeds /\ UNCHANGED notRetry
  \/ \E err \in Errors : RawFails(err) /\ UNCHANGED notRetry

SpecRetry == InitRetry /\ [][NextRetry]_vars

\* the failures the allow-list of raw() names: connection lost or dead,
\* timeout, ECONNRESET
ClassifiedTransient(err) ==
  \/ err.message \in {"Connection lost: The server closed the connection.", "Pool is DEAD",
                      "Query inactivity timeout"}
  \/ err.code \in {"PROTOCOL_CONNECTION_LOST", "ECONNRESET"}

\* C14 (bounded, classified retry): one DB.raw call sends its statement at
\* most retryAttempts times; a failure not classified transient is the last
\* attempt and ends the call with a DBError; a transient failure on an
\* attempt below retryAttempts is followed by another attempt.
C14_BoundedRetry ==
  /\ retry.sends <= retry.max
  /\ Len(retry.met) = retry.attempt
  /\ \A i \in 1..Len(retry.met) :
       retry.met[i].what = "error" =>
         IF ClassifiedTransient(retry.met[i].err) /\ i < retry.max
         THEN i < Len(retry.met) \/ retry.pc = "loop"
         ELSE i = Len(retry.met) /\ retry.pc = "done" /\ retry.outcome = "DBError"

\* a transient failure was retried and the retry met a failure of another
\* sort
C14_Witness ==
  /\ retry.pc = "done"
  /\ Len(retry.met) = 2 /\ retry.max = 3
  /\ retry.met[1].what = "error" /\ ClassifiedTransient(retry.met[1].err)
  /\ retry.met[2].what = "error" /\ ~ClassifiedTransient(retry.met[2].err)
  /\ retry.outcome = "DBError"

\* ---------------------------------------------------------------------
\* Operator calls on one builder
\* ---------------------------------------------------------------------
notOpCall == <<qbVars, entVars, eager, pivot, tx, retry, term, later>>

InitOps == opcall = NoOpCall /\ QBIdle /\ EntityIdle /\ eager = NoEager
           /\ pivot = NoPivot /\ tx = NoTx /\ retry = NoRaw /\ term = NoTerm /\ LaterIdle

NextOps ==
  \/ \E method \in OperatorMethods, op \in Operators :
       CallOperator(method, op) /\ UNCHANGED notOpCall
  \/ \E method \in {"whereIn", "whereNotIn"}, values \in MembershipLists :
       CallMembership(method, values) /\ UNCHANGED notOpCall

SpecOps == InitOps /\ [][NextOps]_vars

\* C15: every operator the builder writes into the SQL text is on the
\* allow-list, and a call of where, orWhere, whereNot, whereColumn,
\* orWhereColumn, having, orHaving or join with an operator outside the
\* allow-list raises an error and leaves the builder without a new
\* predicate.
C15_OperatorAllowList ==
  /\ InterpolatedOperators(opcall.qb) \subseteq VALID_OPERATORS
  /\ (opcall.method # "" /\ OperatorThrows(opcall.operator))
       => (opcall.threw /\ opcall.qb = opcall.before)

\* The place of a trace event in the order validate, hooks, write.
Rank(e) == IF e.kind = "VALIDATE" THEN 1 ELSE IF e.kind = "HOOK" THEN 2 ELSE 3

\* C16: create() and save() run validation, then the hooks, then the
\* write; a hook runs only after validation has run and passed.
C16_LifecycleOrder ==
  call.op \in {"create", "save"} =>
    /\ \A i, j \in DOMAIN call.trace : i < j => Rank(call.trace[i]) <= Rank(call.trace[j])
    /\ OfKind(call.trace, "HOOK") # <<>> =>
         (OfKind(call.trace, "VALIDATE") # <<>> /\ call.outcome # "ValidationError")

\* isDirty() and getChanges() of an entity
IsDirty(e) == \E k \in Keys(e.attrs) : e.attrs[k] # e.orig[k]

GetChanges(e) == [k \in Columns |-> IF e.attrs[k] # Absent /\ e.attrs[k] # e.orig[k]
                                    THEN e.attrs[k] ELSE Absent]

SuccessfulWrite == call.op \in {"create", "save"} /\ call.outcome = "ok"
                   /\ Writes(call.trace) # <<>>

\* C17: after a successful create() or save() that wrote, the original
\* snapshot equals the current attributes, isDirty() is false and
\* getChanges() is empty, whatever values the attributes hold.
C17_SnapshotSync ==
  SuccessfulWrite => (ent.orig = ent.attrs /\ ~IsDirty(ent) /\ Keys(GetChanges(ent)) = {})

\* ---------------------------------------------------------------------
\* Builders are built, then a read terminal is called on one of them
\* ---------------------------------------------------------------------
notRead == <<entVars, eager, pivot, tx, retry, opcall, later>>

Pages == {0, 1, 3}

PerPages == {0, 2}

InitRead == InitBuilders(MaxReadOps) /\ EntityIdle /\ eager = NoEager
            /\ pivot = NoPivot /\ tx = NoTx /\ retry = NoRaw /\ opcall = NoOpCall
            /\ term = NoTerm /\ LaterIdle

NextRead ==
  \/ NewQuery("Post", FALSE) /\ term = NoTerm /\ UNCHANGED <<term, notRead>>
  \/ \E id \in Ids, o \in SimpleOps :
       Simple(id, o) /\ term = NoTerm /\ UNCHANGED <<term, notRead>>
  \/ \E id \in Ids, s \in CloneScripts :
       WhereNested(id, s) /\ term = NoTerm /\ UNCHANGED <<term, notRead>>
  \/ \E id \in Ids, child \in Ids :
       Union(id, child) /\ term = NoTerm /\ UNCHANGED <<term, notRead>>
  \/ \E id \in Ids, name \in Terminals : Terminal(id, name) /\ UNCHANGED notRead
  \/ \E id \in Ids, page \in Pages, perPage \in PerPages, total \in 0..MaxTotal :
       Paginate(id, page, perPage, total) /\ UNCHANGED notRead

SpecRead == InitRead /\ [][NextRead]_vars

HasToken(sql, t) == \E i \in DOMAIN sql : sql[i] = t

\* The statement builder c sent: its SQL text and bindings.
Sent(c) == ToSQL(heap, heap[c])

\* C18: after a read terminal is called on a builder, every builder that
\* existed before the call (the one called and the builders under it) is
\* as it was, so its select list, orders, limit, offset and predicates are
\* unchanged and toSQL() on it gives the same SQL and bindings as before.
C18_ReadTerminalsPure ==
  term.name # "none" =>
    /\ \A i \in DOMAIN term.before : heap[i] = term.before[i]
    /\ ToSQL(heap, heap[term.target]) = ToSQL(term.before, term.before[term.target])

\* paginate() was called on a builder that has a predicate, a limit and
\* an offset; the statements it sent differ from the builder's own.
C18_Witness ==
  /\ term.name = "paginate"
  /\ heap[term.target].wheres # <<>>
  /\ heap[term.target].limit # NoLimit
  /\ term.total > 0
  /\ \A i \in DOMAIN term.sent : Sent(term.sent[i]) # Sent(term.target)

\* C19: paginate(page, perPage) returns page = max(1, page), perPage =
\* max(1, perPage), total = the count of the query without limit and
\* offset, and lastPage = ceil(total / perPage) for every total >= 0, the
\* total 0 included; the data query carries LIMIT perPage and OFFSET
\* (page - 1) * perPage.
C19_Paginate ==
  term.name = "paginate" =>
    LET r == term.result
        count == Sent(term.sent[1])
        data == Sent(term.sent[2])
    IN ~data.threw =>
         /\ r.page = Max(1, term.page)
         /\ r.perPage = Max(1, term.perPage)
         /\ r.total = term.total
         /\ ~HasToken(count.sql, "LIMIT") /\ ~HasToken(count.sql, "OFFSET")
         /\ r.lastPage * r.perPage >= r.total
         /\ (r.lastPage - 1) * r.perPage < r.total \/ (r.total = 0 /\ r.lastPage = 0)
         /\ \E i \in DOMAIN data.sql :
              /\ i + 3 <= Len(data.sql)
              /\ data.sql[i] = "LIMIT" /\ data.sql[i + 1] = ToString(r.perPage)
              /\ data.sql[i + 2] = "OFFSET"
              /\ data.sql[i + 3] = ToString((r.page - 1) * r.perPage)

\* C20: after a create() whose payload carries no primary key, the
\* entity's id is the key the row source generated for the inserted row,
\* and the entity exists.
C20_GeneratedKey ==
  [][(call'.op = "create" /\ call'.outcome = "ok")
       => (ent'.exists /\ ent'.attrs["id"] = NextId(db)
           /\ db'.rows[ent'.attrs["id"]]["email"] = ent'.attrs["email"]
           /\ db.rows[ent'.attrs["id"]]["id"] = Absent)]_vars

\* ---------------------------------------------------------------------
\* attach and detach on the pivot table of one parent
\* ---------------------------------------------------------------------
InitAttach == InitSync

NextAttach ==
  \/ \E ids \in SUBSET RoleIds, blankOk \in BOOLEAN :
       AttachRoles(RoleSeq(ids), blankOk) /\ UNCHANGED notPivot
  \/ \E ids \in SUBSET RoleIds : DetachRoles(RoleSeq(ids), FALSE) /\ UNCHANGED notPivot
  \/ DetachRoles(<<>>, TRUE) /\ UNCHANGED notPivot
  \/ \E id \in RoleIds : InsertPivotRow(id) /\ UNCHANGED notPivot

SpecAttach == InitAttach /\ [][NextAttach]_vars

\* the rows an INSERT statement stores, as (column, value) maps
IsPivotInsertOf(st, id) ==
  /\ st.kind = "INSERT"
  /\ Range(st.cols) = PivotColumns
  /\ \A i \in DOMAIN st.cols :
       st.bindings[i] = IF st.cols[i] = "user_id" THEN "1" ELSE id

\* C21: attach(ids) stores one pivot row per id, with the foreign key set
\* to the parent's key and the related key set to the id; detach() without
\* ids deletes every pivot row of the parent; detach(ids) deletes the
\* parent's rows whose related key is in ids, and no other.
C21_AttachDetach ==
  LET l == pivot.last
      ids == Range(l.ids)
  IN /\ l.op = "attach" =>
          /\ l.outcome = "ok"
          /\ ~pivot.blank
          /\ pivot.current = l.before \cup ids
          /\ \A id \in ids : \E i \in DOMAIN l.sent : IsPivotInsertOf(l.sent[i], id)
     /\ l.op = "detachAll" => pivot.current = {}
     /\ l.op = "detach" => pivot.current = l.before \ ids

\* C22: a get() on a builder whose eager-load list names something that
\* is not a relation method of the entity type ends in an error, whatever
\* rows the main query returns, the empty result included.
C22_UnknownRelationFatal ==
  (eager.got /\ \E i \in 1..Len(eager.with) : RelationKind(eager.with[i]) = "none")
    => eager.outcome = "Error"

\* rows of a table with the column c
SampleRows == { [c |-> v] : v \in {"a", "D", Null} }

\* C23: whereIn(col, []) adds one predicate that no row satisfies and
\* whereNotIn(col, []) one that every row satisfies; the builder compiles
\* without error and the predicate adds no binding.
C23_EmptyMembership ==
  (opcall.method \in {"whereIn", "whereNotIn"} /\ opcall.values = <<>>) =>
    LET sql == ToSQL(<<>>, opcall.qb)
        was == ToSQL(<<>>, opcall.before)
        ws == opcall.qb.wheres
    IN /\ Len(ws) = Len(opcall.before.wheres) + 1
       /\ ~sql.threw
       /\ sql.bindings = was.bindings
       /\ Len(sql.sql) > Len(was.sql)
       /\ \A row \in SampleRows :
            NodeHolds(ws[Len(ws)], row) = (opcall.method = "whereNotIn")

\* whereIn('c', []) was called on a builder that has a predicate with a
\* binding
C23_Witness ==
  /\ opcall.method = "whereIn" /\ opcall.values = <<>>
  /\ ToSQL(<<>>, opcall.before).bindings # <<>>

\* C24: a clone compiles to the same SQL text and the same ordered
\* bindings as the builder it was made from, also when that builder has
\* an exists sub-query, a CTE or a union whose sub-builder carries joins,
\* having, ordering, limit or offset.
C24_CloneEquivalence ==
  [][\A c \in clones' \ clones :
       ToSQL(heap', heap'[c.clone]) = ToSQL(heap', heap'[c.src])]_vars

\* ---------------------------------------------------------------------
\* The write statements of a builder: update({email: 'v'}), increment('n'),
\* decrement('n') and delete(), as SQL tokens and as the parameter list
\* ---------------------------------------------------------------------
WriteKinds == {"update", "increment", "decrement", "delete"}

SetValues(kind) ==
  CASE kind = "update" -> <<"v">>
    [] kind \in {"increment", "decrement"} -> <<"1">>
    [] OTHER -> <<>>

CompileWrite(h, b, kind) ==
  (CASE kind = "update" ->
          <<T("UPDATE"), T(EscapeId(b.table)), T("SET"), T(EscapeId("email") \o " ="), P("v")>>
     [] kind = "increment" ->
          <<T("UPDATE"), T(EscapeId(b.table)), T("SET"),
            T(EscapeId("n") \o " = " \o EscapeId("n") \o " +"), P("1")>>
     [] kind = "decrement" ->
          <<T("UPDATE"), T(EscapeId(b.table)), T("SET"),
            T(EscapeId("n") \o " = " \o EscapeId("n") \o " -"), P("1")>>
     [] OTHER -> <<T("DELETE FROM"), T(EscapeId(b.table))>>)
  \o CompileWheres(h, b)

WriteBindings(h, b, kind) == SetValues(kind) \o GatherBindings(h, b)

\* C25: for update, increment, decrement and delete on any builder whose
\* WHERE compiles, the parameter list is the SET values followed by
\* exactly the literals of the placeholders of the WHERE, in order, so
\* its length is the number of placeholders of the statement; also when
\* the builder carries having clauses, CTEs or unions.
C25_WriteBindingFidelity ==
  \A id \in Ids : \A kind \in WriteKinds :
    ~CompileWheresThrows(heap, heap[id]) =>
      WriteBindings(heap, heap[id], kind) = EmittedLiterals(CompileWrite(heap, heap[id], kind))

\* C26: delete() of a persisted entity of a type without soft deletes,
\* whose restrict relation has no related row, raises no error, sends the
\* DELETE of the entity's row, clears the existence flag and returns true.
C26_RestrictPermitsDelete ==
  (/\ call.op = "delete"
   /\ PersistedBefore
   /\ ~SoftDeletes(cfg.model)
   /\ cfg.rel.behavior = "restrict"
   /\ RelatedRows(call.pre, db) = {})
    => (call.outcome = "ok" /\ Len(OwnDeletes(call.trace)) = 1 /\ ~ent.exists)

\* ---------------------------------------------------------------------
\* One batch call
\* ---------------------------------------------------------------------
notBatch == <<qbVars, entVars, eager, pivot, tx, retry, opcall, term, conc>>

InitBatch == batch = NoBatch /\ QBIdle /\ EntityIdle /\ eager = NoEager
             /\ pivot = NoPivot /\ tx = NoTx /\ retry = NoRaw /\ opcall = NoOpCall
             /\ term = NoTerm /\ conc = NoConc

NextBatch ==
  \/ \E driver \in Drivers, method \in BatchMethods, n \in 1..MaxBatch :
       \E items \in ItemSeqs(method, n) :
         BatchStart(driver, method, items) /\ UNCHANGED notBatch
  \/ BatchItem /\ UNCHANGED notBatch
  \/ BatchCommit /\ UNCHANGED notBatch
  \/ BatchRollback /\ UNCHANGED notBatch

SpecBatch == InitBatch /\ [][NextBatch]_vars

\* C27: the writes of createMany, fetchOrCreateMany and updateOrCreateMany
\* run on the connection of the transaction that wraps them: while the
\* batch runs none of its writes is stored outside the transaction, and
\* when an item fails the rollback leaves no write of the batch stored.
C27_BatchAtomicity ==
  /\ batch.pc \in {"loop", "catch"} => batch.stored = {}
  /\ (batch.pc = "done" /\ batch.outcome = "Error") => batch.stored = {}

\* C28: when save() on a persisted entity raises ValidationError, the
\* entity's current attributes and its original attributes are exactly
\* what they were before the call, updated_at included.
C28_FailedSaveUnchanged ==
  (call.op = "save" /\ call.pre.exists /\ call.outcome = "ValidationError")
    => (ent.attrs = call.pre.attrs /\ ent.orig = call.pre.orig)

\* C29: an INSERT, UPDATE or DELETE issued through QueryBuilder.insert /
\* update / delete is sent to the row source at most once per call, also
\* when retryAttempts > 1 and the row source reports a transient failure;
\* only read statements are sent again.
C29_WritesNotResent ==
  retry.kind \in {"INSERT", "UPDATE", "DELETE"} => retry.sends <= 1

\* ---------------------------------------------------------------------
\* Two concurrent DB.raw calls
\* ---------------------------------------------------------------------
notConc == <<qbVars, entVars, eager, pivot, tx, retry, opcall, term, batch>>

InitConc == conc = NoConc /\ batch = NoBatch /\ QBIdle /\ EntityIdle /\ eager = NoEager
            /\ pivot = NoPivot /\ tx = NoTx /\ retry = NoRaw /\ opcall = NoOpCall
            /\ term = NoTerm

NextConc ==
  \/ \E p \in Procs, max \in 1..MaxConcRetry : ConcStart(p, max) /\ UNCHANGED notConc
  \/ \E p \in Procs : ConcConnect(p) /\ UNCHANGED notConc
  \/ \E p \in Procs : ConcQuery(p) /\ UNCHANGED notConc
  \/ \E p \in Procs : ConcAnswer(p) /\ UNCHANGED notConc
  \/ \E p \in Procs, transient \in BOOLEAN : ConcFail(p, transient) /\ UNCHANGED notConc
  \/ \E p \in Procs : ConcEnd(p) /\ UNCHANGED notConc
  \/ \E p \in Procs : ConcEndDone(p) /\ UNCHANGED notConc
  \/ \E p \in Procs : ConcBackoff(p) /\ UNCHANGED notConc

SpecConc == InitConc /\ [][NextConc]_vars

\* C30: when one of two concurrent DB.raw calls hits a transient failure
\* and retries, the other call's query is not failed by that retry: no
\* call that obtained the pool while it was open sends its query to a pool
\* that the retry path has closed.
C30_RetryIsolation ==
  \A p \in Procs : ~(conc.proc[p].gotOpen /\ conc.proc[p].ranClosed)

====
